---- MODULE Spec2Model ----
(***************************************************************************)
(* The query-repair pipeline of the flight-data chatbot.                   *)
(*                                                                         *)
(*  - Spec: the agent variant.  The /chat handler of agent_chat.py hands   *)
(*    one user query to OrchestratorAgent.process, which calls the intent  *)
(*    classifier, the SQL Generator, the SQL validator and the SQL         *)
(*    Executor, and on an execution failure regenerates and re-executes    *)
(*    once.  One step of the model is the code between two collaborator    *)
(*    calls; the outcome of each collaborator (LLM, datastore) is chosen   *)
(*    nondeterministically.                                                *)
(*                                                                         *)
(*  - SpecFlightChat: the direct Flask variant, flight_chat.py, whose      *)
(*    /chat handler generates one statement and executes it, falling back  *)
(*    to a simplified statement and then to a fixed backup statement.      *)
(*                                                                         *)
(* Texts (queries, SQL statements, error messages) are sequences of        *)
(* strings: the empty sequence is the empty text, and concatenation is \o. *)
(***************************************************************************)
EXTENDS Naturals, Sequences, FiniteSets

\* ------------------------------------------------------------------ bounds

\* Requests handled by the one orchestrator of the model (one session), and
\* requests handled by flight_chat.
MaxRuns == 3

\* Pieces in one completion of the model, and pieces in a statement that the
\* model returns between fence lines.
MaxLen == 4

MaxStatementLen == 3

\* Calls of progress_callback that are followed step by step.
MaxEvents == 3

\* Calls of register_tool, unregister_tool and process that are followed.
MaxToolCalls == 2

\* ------------------------------------------------------- program constants

\* orchestrator_agent.py: "if len(self.conversation_history) > 10".
HistoryLimit == 10

\* sql_execution_agent.py: "df.head(100) ... if len(df) > 100".
RowCap == 100

\* flight_chat.py: "if len(conversations[session_id]) > 3".
FlightHistoryLimit == 3

\* agent_chat.py: "if len(progress_events[session_id]) > 50".
ProgressCap == 50

\* ------------------------------------------------------------ input sets

EmptyText == <<>>

\* What the request body's "query" can be: missing or empty, or a question.
Queries == {EmptyText, <<"flights by month">>, <<"top airlines">>}

\* What the Generator's cleanup returns for a completed model call.
SqlTexts ==
  { EmptyText,
    <<"SELECT month FROM flights">>,
    <<"SELECT month, COUNT(*) FROM flights ", "GROUP BY", " month">> }

\* str(e) of an exception raised by the LLM client.
LlmErrors == {<<"overloaded">>}

\* str(e) of an exception raised by the datastore driver.
DbErrors == {<<"column foo does not exist">>, <<"syntax error">>}

\* The rows a successful query returns.
DbRows == {<<>>, <<"row1", "row2">>}

\* What the intent classifier's completion can be ("RAISE": the call raised).
IntentTexts ==
  {"SQL_GENERATION_ONLY", "SQL_GENERATION_AND_EXECUTION", "unclear", "RAISE"}

\* What the validator's completion can be: a JSON object with is_valid true
\* or false, a JSON object without the key, text that is no JSON, or the call
\* raised.
ValidationTexts == {"valid", "invalid", "no_key", "no_json", "RAISE"}

\* One model call of the Generator: completed with cleaned text, or raised.
GenOutcomes ==
  [ok : {TRUE}, text : SqlTexts] \cup [ok : {FALSE}, text : LlmErrors]

\* The analysis and follow-up model calls of flight_chat: completed, or raised.
AnalysisOutcomes ==
  [ok : {TRUE}, text : {<<"analysis">>}] \cup [ok : {FALSE}, text : LlmErrors]

\* One query against the datastore: rows, or a driver error.
DbOutcomes ==
  [ok : {TRUE}, rows : DbRows, text : {EmptyText}]
    \cup [ok : {FALSE}, rows : {<<>>}, text : DbErrors]

\* ------------------------------------------------------------------ state

VARIABLES
  conversation_history,  \* OrchestratorAgent.conversation_history
  pc,                    \* where the running process() call is ("idle": none)
  user_query,            \* process(): user_query
  intent,                \* process(): intent
  sql_query,             \* process(): sql_query
  error_message,         \* process(): error_message
  regenerated_sql_query, \* process(): regenerated_sql_query
  result,                \* what the last process() call returned
  response,              \* what the last /chat request returned
  callLog,               \* Generator and Executor calls of this request
  llmCalls,              \* LLM completions requested by this request
  dbQueries,             \* statements sent to the datastore by this request
  histBefore,            \* conversation_history when this request arrived
  runs,                  \* requests received so far
  conversations,         \* flight_chat.conversations: session id -> turns
  fc_pc,                 \* where the running flight_chat.chat call is
  fc_user_query,         \* chat(): user_query
  fc_sql_query,          \* chat(): sql_query
  fc_generated,          \* what generate_sql returned to this request
  fc_df,                 \* chat(): df, the rows of the statement that ran
  fc_response,           \* what the last flight_chat /chat request returned
  fc_execLog,            \* statements this request sent to the datastore
  fc_requests,           \* flight_chat requests received so far
  ex_pc,                 \* where the running Executor call is ("idle": none)
  ex_variant,            \* which Executor implementation the call runs
  ex_cap,                \* the call's row cap (max_rows)
  ex_fallback,           \* execute(): whether a fallback_query was given
  ex_stage,              \* execute(): "primary", or "fallback" once it failed
  ex_primaryError,       \* execute(): str(primary_error)
  ex_open,               \* connections the call opened and has not closed
  ex_engines,            \* engines the call created and has not disposed
  ex_df,                 \* the rows the datastore returned to the call
  ex_result,             \* what the last Executor call returned
  cl_pc,                 \* where the Generator call is, from the model call on
  cl_raw,                \* response.content[0].text
  cl_text,               \* process(): sql_query, before the cleanup
  cl_result,             \* what the Generator call returned
  ag_history,            \* agent_api.orchestrator.conversation_history
  ag_owners,             \* for each turn of ag_history, the token it came with
  ag_session_id,         \* agent_api.session_id
  active_sessions,       \* integration_example.active_sessions (its keys)
  ag_response,           \* what the last request to integration_example got
  ag_last,               \* the last request: what it was and its token
  ag_before,             \* ag_history when the last request arrived
  ag_planOwners,         \* the owners of the turns the last chat's planner saw
  ag_left,               \* for each token, the history its last request left
  ag_expected,           \* ag_left of the last request's token, on arrival
  ag_requests,           \* requests to integration_example so far
  orchestrators,         \* agent_chat.orchestrators: token -> orchestrator
  ss_created,            \* orchestrators made by create_orchestrator so far
  ss_history,            \* for each orchestrator, the requests it has recorded
  ss_pc,                 \* for each request thread, where its chat() call is
  ss_session_id,         \* chat(): session_id
  ss_orchestrator,       \* chat(): orchestrator (0: not fetched)
  ss_request,            \* for each thread, the number of its request
  ss_response,           \* for each thread, the code of its last response
  ss_served,             \* the requests processed: token, orchestrator, number
  ss_requests,           \* requests to agent_chat /chat so far
  progress_events,       \* agent_chat.progress_events[s]: its list (0: no key s)
  pe_lists,              \* the list objects in use: for each, its events in order
  pe_cb_pc,              \* where the running progress_callback call is
  pe_cb_list,            \* progress_callback: the list it is about to append to
  pe_cb_slice,           \* progress_callback: the value of [-50:], to be stored
  pe_cb_dropped,         \* the events that the slice leaves out
  pe_reported,           \* events reported so far; an event is its number
  pe_sinceClear,         \* events appended since the last poll cleared the list
  pe_evicted,            \* events dropped by the 50-event cap
  pe_poll_pc,            \* for each /progress request, where it is
  pe_poll_events,        \* get_progress: events (the list it will return)
  pe_returned,           \* for each /progress request, the events it returned
  pe_calls,              \* progress_callback calls followed so far
  tools,                 \* OrchestratorAgent.tools of the tool-calling orchestrator
  tool_registry,         \* OrchestratorAgent.tool_registry: name -> tool
  execution_history,     \* OrchestratorAgent.execution_history
  tl_history,            \* its conversation_history
  tl_pc,                 \* where its running process() call is
  tl_plan,               \* process(): tools_to_use
  tl_index,              \* process(): the position of the loop in the plan
  tl_results,            \* process(): results
  tl_response,           \* what the last process() call handed back
  tl_first,              \* the length of execution_history when the call began
  tl_registered,         \* the names registered when the call began
  tl_calls               \* calls of register_tool, unregister_tool, process so far

orchVars ==
  << conversation_history, pc, user_query, intent, sql_query, error_message,
     regenerated_sql_query, result, response, callLog, llmCalls, dbQueries,
     histBefore, runs >>

fcVars ==
  << conversations, fc_pc, fc_user_query, fc_sql_query, fc_generated, fc_df,
     fc_response, fc_execLog, fc_requests >>

execVars ==
  << ex_pc, ex_variant, ex_cap, ex_fallback, ex_stage, ex_primaryError,
     ex_open, ex_engines, ex_df, ex_result >>

cleanupVars == << cl_pc, cl_raw, cl_text, cl_result >>

agenticVars ==
  << ag_history, ag_owners, ag_session_id, active_sessions, ag_response,
     ag_last, ag_before, ag_planOwners, ag_left, ag_expected, ag_requests >>

sessionVars ==
  << orchestrators, ss_created, ss_history, ss_pc,
     ss_session_id, ss_orchestrator, ss_request, ss_response, ss_served,
     ss_requests >>

progressVars ==
  << progress_events, pe_lists, pe_cb_pc, pe_cb_list,
     pe_cb_slice, pe_cb_dropped, pe_reported, pe_sinceClear, pe_evicted,
     pe_poll_pc, pe_poll_events, pe_returned, pe_calls >>

toolVars ==
  << tools, tool_registry, execution_history, tl_history, tl_pc,
     tl_plan, tl_index, tl_results, tl_response, tl_first, tl_registered,
     tl_calls >>

vars ==
  << orchVars, fcVars, execVars, cleanupVars, agenticVars,
     sessionVars, progressVars, toolVars >>

\* What a step of one component leaves alone: the state of the others.
outsideOrch ==
  << fcVars, execVars, cleanupVars, agenticVars, sessionVars,
     progressVars, toolVars >>

outsideFlight ==
  << orchVars, execVars, cleanupVars, agenticVars,
     sessionVars, progressVars, toolVars >>

outsideExec ==
  << orchVars, fcVars, cleanupVars, agenticVars, sessionVars,
     progressVars, toolVars >>

outsideCleanup ==
  << orchVars, fcVars, execVars, agenticVars, sessionVars,
     progressVars, toolVars >>

outsideAgentic ==
  << orchVars, fcVars, execVars, cleanupVars, sessionVars,
     progressVars, toolVars >>

outsideSessions ==
  << orchVars, fcVars, execVars, cleanupVars, agenticVars,
     progressVars, toolVars >>

outsideProgress ==
  << orchVars, fcVars, execVars, cleanupVars, agenticVars,
     sessionVars, toolVars >>

outsideTools ==
  << orchVars, fcVars, execVars, cleanupVars, agenticVars,
     sessionVars, progressVars >>

\* ---------------------------------------------------------------- helpers

\* dict.get(key, default)
Get(d, key, default) == IF key \in DOMAIN d THEN d[key] ELSE default

\* list[-n:]
LastN(s, n) == IF Len(s) > n THEN SubSeq(s, Len(s) - n + 1, Len(s)) ELSE s

\* DataFrame.head(n)
HeadN(s, n) == IF Len(s) > n THEN SubSeq(s, 1, n) ELSE s

Turn(role, content) == [role |-> role, content |-> content]

NoResult == [status |-> "none"]

SessionId == "session-A"

\* ------------------------------------------------------------ collaborators

\* The Generator's result, were the reason left out of a failure.
GeneratorProcessWithoutReason(o) ==
  IF o.ok
    THEN [sql_query |-> o.text, status |-> "success"]
    ELSE [status |-> "error"]

\* SQLGenerationAgent.process: a completed model call is a success carrying
\* the cleaned text, any exception is an error carrying its message.
GeneratorProcess(o) ==
  IF o.ok
    THEN [sql_query |-> o.text, status |-> "success"]
    ELSE [error |-> <<"Failed to generate SQL: ">> \o o.text, status |-> "error"]

\* The Executor's test, were the check for an empty statement missing.
ExecutorQueriesAnything(sql) == TRUE

\* Whether SQLExecutionAgent.process sends the statement to the datastore.
ExecutorQueries(sql) == sql # EmptyText

\* The agent's result, were row_count taken after the truncation.
ExecutorProcessCountsReturned(sql, o) ==
  IF ~ExecutorQueries(sql)
    THEN [error |-> <<"No SQL query provided">>, status |-> "error"]
    ELSE IF o.ok
      THEN [results |-> HeadN(o.rows, RowCap),
            column_names |-> <<"month">>,
            row_count |-> Len(HeadN(o.rows, RowCap)),
            status |-> "success"]
      ELSE [error |-> o.text, status |-> "error"]

\* SQLExecutionAgent.process.
ExecutorProcess(sql, o) ==
  IF ~ExecutorQueries(sql)
    THEN [error |-> <<"No SQL query provided">>, status |-> "error"]
    ELSE IF o.ok
      THEN [results |-> HeadN(o.rows, RowCap),
            column_names |-> <<"month">>,
            row_count |-> Len(o.rows),
            status |-> "success"]
      ELSE [error |-> o.text, status |-> "error"]

\* OrchestratorAgent._determine_intent.
DetermineIntentResult(text) ==
  IF text = "SQL_GENERATION_ONLY"
    THEN "SQL_GENERATION_ONLY"
    ELSE "SQL_GENERATION_AND_EXECUTION"

\* One entry of callLog.  arg: the statement executed, or the error feedback
\* given to the Generator; out: what the call returned.
GenCall(hasFeedback, feedback, out) ==
  [who |-> "gen", hasFeedback |-> hasFeedback, arg |-> feedback, out |-> out]

ExecCall(sql, out) ==
  [who |-> "exec", hasFeedback |-> FALSE, arg |-> sql, out |-> out]

\* ------------------------------------------------------- results of process

\* process(): the history after the accepted SQL is appended and trimmed.
AppendSqlAndTrim(history, sql) ==
  LastN(Append(history, Turn("assistant", sql)), HistoryLimit)

\* The result of a failed generation, were the Generator's reason dropped.
GenerationFailureGeneric(gen) ==
  [error |-> <<"SQL generation failed">>, status |-> "error"]

\* process(): the result when the first generation failed.
GenerationFailureResult(gen) ==
  [error |-> Get(gen, "error", <<"SQL generation failed">>), status |-> "error"]

\* The result of a failed regeneration, were the execution error reported.
RegenerationFailureReportsExecError(regen, execError) ==
  [error |-> execError, status |-> "error"]

\* process(): the result when the regeneration failed; execError is the
\* error_message of the first execution, which the result does not use.
RegenerationFailureResult(regen, execError) ==
  [error |-> Get(regen, "error", <<"SQL regeneration failed">>),
   status |-> "error"]

\* process(): the result when the regenerated statement failed too.
RetryFailureResult(exec, query, regenerated) ==
  [error |-> <<"Failed to execute SQL after regeneration: ">>
               \o Get(exec, "error", <<"None">>),
   original_query |-> query,
   sql_query |-> regenerated,
   status |-> "error"]

\* The accepted statement, were "sql_query = regenerated_sql_query" missing.
AcceptedStaysOriginal(original, regenerated) == original

\* process(): the statement that is accepted after a successful repair.
AcceptedAfterRepair(original, regenerated) == regenerated

\* process(): the result of a run that executed a statement successfully.
SuccessResult(sql, exec) ==
  [sql_query |-> sql,
   data |-> Get(exec, "results", <<>>),
   column_names |-> Get(exec, "column_names", <<>>),
   row_count |-> Get(exec, "row_count", 0),
   session_id |-> SessionId,
   intent |-> "SQL generation and execution",
   status |-> "success"]

\* process(): the result when only the SQL was asked for.
SqlOnlyResult(sql) ==
  [sql_query |-> sql,
   intent |-> "SQL generation only",
   session_id |-> SessionId,
   status |-> "success"]

\* process(): the result when an exception reaches the outer handler.
OrchestrationErrorResult(msg) ==
  [error |-> <<"Orchestration error: ">> \o msg, status |-> "error"]

\* The handler's check, were it missing.
RejectsNothing(q) == FALSE

\* agent_chat.chat: whether the request is rejected before any work.
RejectsQuery(q) == q = EmptyText

\* agent_chat.chat: the response to a rejected request.
NoQueryResponse == [code |-> 400, error |-> <<"No query provided">>]

\* agent_chat.chat: the response made from the orchestrator's result.
ChatResponse(r) ==
  IF r.status # "success"
    THEN [code |-> 500,
          error |-> Get(r, "error", <<"Unknown error">>),
          session_id |-> SessionId]
    ELSE [code |-> 200,
          sql_query |-> Get(r, "sql_query", EmptyText),
          data |-> Get(r, "data", <<>>),
          session_id |-> SessionId,
          column_names |-> Get(r, "column_names", <<>>),
          row_count |-> Get(r, "row_count", 0)]

\* ---------------------------------------------------------------- actions

\* The state after construction of the handlers, the orchestrator and the
\* Executors.
InitComponents ==
  /\ conversation_history = <<>>
  /\ pc = "idle"
  /\ user_query = EmptyText
  /\ intent = "none"
  /\ sql_query = EmptyText
  /\ error_message = EmptyText
  /\ regenerated_sql_query = EmptyText
  /\ result = NoResult
  /\ response = [code |-> 0]
  /\ callLog = <<>>
  /\ llmCalls = 0
  /\ dbQueries = 0
  /\ histBefore = <<>>
  /\ runs = 0
  /\ conversations = <<>>
  /\ fc_pc = "idle"
  /\ fc_user_query = EmptyText
  /\ fc_sql_query = EmptyText
  /\ fc_generated = EmptyText
  /\ fc_df = <<>>
  /\ fc_response = [code |-> 0]
  /\ fc_execLog = <<>>
  /\ fc_requests = 0
  /\ ex_pc = "idle"
  /\ ex_variant = "agent"
  /\ ex_cap = RowCap
  /\ ex_fallback = FALSE
  /\ ex_stage = "primary"
  /\ ex_primaryError = EmptyText
  /\ ex_open = 0
  /\ ex_engines = 0
  /\ ex_df = <<>>
  /\ ex_result = NoResult
  /\ ag_history = <<>>
  /\ ag_owners = <<>>
  /\ ag_session_id = "none"
  /\ active_sessions = {}
  /\ ag_response = [code |-> 0]
  /\ ag_last = [op |-> "none", token |-> "none"]
  /\ ag_before = <<>>
  /\ ag_planOwners = <<>>
  /\ ag_left = [t \in {"session-A", "session-B", "session_generated"} |-> <<>>]
  /\ ag_expected = <<>>
  /\ ag_requests = 0
  /\ orchestrators = << >>
  /\ ss_created = 0
  /\ ss_history = << >>
  /\ ss_pc = [w \in {"thread-1", "thread-2"} |-> "idle"]
  /\ ss_session_id = [w \in {"thread-1", "thread-2"} |-> [kind |-> "none", n |-> 0]]
  /\ ss_orchestrator = [w \in {"thread-1", "thread-2"} |-> 0]
  /\ ss_request = [w \in {"thread-1", "thread-2"} |-> 0]
  /\ ss_response = [w \in {"thread-1", "thread-2"} |-> 0]
  /\ ss_served = {}
  /\ ss_requests = 0
  /\ tools = << [name |-> "generate_sql", id |-> 1],
                [name |-> "execute_sql", id |-> 1] >>
  /\ tool_registry =
       [n \in {"generate_sql", "execute_sql"} |-> [name |-> n, id |-> 1]]
  /\ execution_history = << >>
  /\ tl_history = << >>
  /\ tl_pc = "idle"
  /\ tl_plan = << >>
  /\ tl_index = 1
  /\ tl_results = << >>
  /\ tl_response = [kind |-> "none"]
  /\ tl_first = 0
  /\ tl_registered = {"generate_sql", "execute_sql"}
  /\ tl_calls = 0

\* No Generator call is being followed.
NoGeneratorCall ==
  /\ cl_pc = "idle"
  /\ cl_raw = EmptyText
  /\ cl_text = EmptyText
  /\ cl_result = NoResult

\* progress_events once the session's key holds the events 1..n in a list
\* (no key yet when n is 0), with no callback and no poll running.
ProgressAfter(n) ==
  /\ progress_events = IF n = 0 THEN 0 ELSE 1
  /\ pe_lists = IF n = 0 THEN << >> ELSE << [i \in 1..n |-> i] >>
  /\ pe_cb_pc = "idle"
  /\ pe_cb_list = 0
  /\ pe_cb_slice = << >>
  /\ pe_cb_dropped = {}
  /\ pe_reported = n
  /\ pe_sinceClear = n
  /\ pe_evicted = {}
  /\ pe_poll_pc = [p \in {"poll-1", "poll-2"} |-> "ready"]
  /\ pe_poll_events = [p \in {"poll-1", "poll-2"} |-> 0]
  /\ pe_returned = [p \in {"poll-1", "poll-2"} |-> << >>]
  /\ pe_calls = 0

\* agent_chat.py: "progress_events = {}".
NoProgressYet == ProgressAfter(0)

\* The state after construction.
Init ==
  /\ InitComponents
  /\ NoGeneratorCall
  /\ NoProgressYet

\* process() returns r: its locals are gone, the handler answers.
Return(r) ==
  /\ result' = r
  /\ response' = ChatResponse(r)
  /\ pc' = "idle"
  /\ intent' = "none"
  /\ sql_query' = EmptyText
  /\ error_message' = EmptyText
  /\ regenerated_sql_query' = EmptyText

\* agent_chat.chat up to the first collaborator call of process(): an empty
\* query is answered at once; otherwise process() records the user turn.
ChatRequest(q) ==
  /\ UNCHANGED outsideOrch
  /\ pc = "idle"
  /\ runs < MaxRuns
  /\ runs' = runs + 1
  /\ user_query' = q
  /\ callLog' = <<>>
  /\ llmCalls' = 0
  /\ dbQueries' = 0
  /\ histBefore' = conversation_history
  /\ IF RejectsQuery(q)
       THEN /\ response' = NoQueryResponse
            /\ result' = NoResult
            /\ UNCHANGED << conversation_history, pc >>
       ELSE /\ conversation_history' =
                 Append(conversation_history, Turn("user", q))
            /\ pc' = "intent"
            /\ result' = NoResult
            /\ response' = [code |-> 0]
  /\ UNCHANGED << intent, sql_query, error_message, regenerated_sql_query >>

\* process(), step 1: the intent classifier.
DetermineIntent(text) ==
  /\ UNCHANGED outsideOrch
  /\ pc = "intent"
  /\ llmCalls' = llmCalls + 1
  /\ intent' = DetermineIntentResult(text)
  /\ pc' = "generate"
  /\ UNCHANGED << conversation_history, user_query, sql_query, error_message,
                  regenerated_sql_query, result, response, callLog, dbQueries,
                  histBefore, runs >>

\* process(), step 2: the first Generator call.
GenerateSql(o) ==
  /\ UNCHANGED outsideOrch
  /\ pc = "generate"
  /\ llmCalls' = llmCalls + 1
  /\ LET gen == GeneratorProcess(o) IN
       /\ callLog' = Append(callLog, GenCall(FALSE, EmptyText, gen))
       /\ IF gen.status # "success"
            THEN Return(GenerationFailureResult(gen))
            ELSE /\ sql_query' = Get(gen, "sql_query", EmptyText)
                 /\ pc' = "validate"
                 /\ UNCHANGED << intent, error_message, regenerated_sql_query,
                                 result, response >>
  /\ UNCHANGED << conversation_history, user_query, dbQueries, histBefore,
                  runs >>

\* process(), steps 3 and 4: the validator, whose verdict is only logged, and
\* the return of the SQL alone when that is all the user asked for.
ValidateSql(text) ==
  /\ UNCHANGED outsideOrch
  /\ pc = "validate"
  /\ llmCalls' = llmCalls + 1
  /\ IF text = "no_key"
       THEN \* validation_result["is_valid"] raises KeyError
            /\ Return(OrchestrationErrorResult(<<"'is_valid'">>))
            /\ UNCHANGED conversation_history
       ELSE IF intent = "SQL_GENERATION_ONLY"
         THEN /\ conversation_history' =
                   AppendSqlAndTrim(conversation_history, sql_query)
              /\ Return(SqlOnlyResult(sql_query))
         ELSE /\ pc' = "execute"
              /\ UNCHANGED << conversation_history, intent, sql_query,
                              error_message, regenerated_sql_query, result,
                              response >>
  /\ UNCHANGED << user_query, callLog, dbQueries, histBefore, runs >>

\* process(), steps 6 and 7: the accepted statement is recorded and returned.
Finish(sql, exec) ==
  /\ conversation_history' = AppendSqlAndTrim(conversation_history, sql)
  /\ Return(SuccessResult(sql, exec))

\* process(), step 5: the first Executor call.
ExecuteSql(o) ==
  /\ UNCHANGED outsideOrch
  /\ pc = "execute"
  /\ dbQueries' = IF ExecutorQueries(sql_query) THEN dbQueries + 1 ELSE dbQueries
  /\ LET exec == ExecutorProcess(sql_query, o) IN
       /\ callLog' = Append(callLog, ExecCall(sql_query, exec))
       /\ IF exec.status # "success"
            THEN /\ error_message' = Get(exec, "error", <<"Unknown error">>)
                 /\ pc' = "regenerate"
                 /\ UNCHANGED << conversation_history, intent, sql_query,
                                 regenerated_sql_query, result, response >>
            ELSE Finish(sql_query, exec)
  /\ UNCHANGED << user_query, llmCalls, histBefore, runs >>

\* The repair call, were the error wrapped in a message of the orchestrator
\* before it is handed to the Generator.
RegenerateSqlWithWrappedError(o) ==
  /\ UNCHANGED outsideOrch
  /\ pc = "regenerate"
  /\ llmCalls' = llmCalls + 1
  /\ LET regen == GeneratorProcess(o) IN
       /\ callLog' = Append(callLog,
            GenCall(TRUE, <<"SQL execution failed: ">> \o error_message, regen))
       /\ IF regen.status # "success"
            THEN Return(RegenerationFailureResult(regen, error_message))
            ELSE /\ regenerated_sql_query' = Get(regen, "sql_query", EmptyText)
                 /\ pc' = "reexecute"
                 /\ UNCHANGED << intent, sql_query, error_message, result,
                                 response >>
  /\ UNCHANGED << conversation_history, user_query, dbQueries, histBefore,
                  runs >>

\* process(): the repair call of the Generator, with the error as feedback.
RegenerateSql(o) ==
  /\ UNCHANGED outsideOrch
  /\ pc = "regenerate"
  /\ llmCalls' = llmCalls + 1
  /\ LET regen == GeneratorProcess(o) IN
       /\ callLog' = Append(callLog, GenCall(TRUE, error_message, regen))
       /\ IF regen.status # "success"
            THEN Return(RegenerationFailureResult(regen, error_message))
            ELSE /\ regenerated_sql_query' = Get(regen, "sql_query", EmptyText)
                 /\ pc' = "reexecute"
                 /\ UNCHANGED << intent, sql_query, error_message, result,
                                 response >>
  /\ UNCHANGED << conversation_history, user_query, dbQueries, histBefore,
                  runs >>

\* The execution of the regenerated statement, were a second failure to
\* start another repair cycle instead of ending the run.
ReExecuteSqlRepairingAgain(o) ==
  /\ UNCHANGED outsideOrch
  /\ pc = "reexecute"
  /\ dbQueries' =
       IF ExecutorQueries(regenerated_sql_query) THEN dbQueries + 1 ELSE dbQueries
  /\ LET exec == ExecutorProcess(regenerated_sql_query, o) IN
       /\ callLog' = Append(callLog, ExecCall(regenerated_sql_query, exec))
       /\ IF exec.status # "success"
            THEN /\ error_message' = Get(exec, "error", <<"Unknown error">>)
                 /\ pc' = "regenerate"
                 /\ UNCHANGED << conversation_history, intent, sql_query,
                                 regenerated_sql_query, result, response >>
            ELSE Finish(AcceptedAfterRepair(sql_query, regenerated_sql_query),
                        exec)
  /\ UNCHANGED << user_query, llmCalls, histBefore, runs >>

\* process(): the execution of the regenerated statement.
ReExecuteSql(o) ==
  /\ UNCHANGED outsideOrch
  /\ pc = "reexecute"
  /\ dbQueries' =
       IF ExecutorQueries(regenerated_sql_query) THEN dbQueries + 1 ELSE dbQueries
  /\ LET exec == ExecutorProcess(regenerated_sql_query, o) IN
       /\ callLog' = Append(callLog, ExecCall(regenerated_sql_query, exec))
       /\ IF exec.status # "success"
            THEN /\ Return(RetryFailureResult(exec, user_query,
                                              regenerated_sql_query))
                 /\ UNCHANGED conversation_history
            ELSE Finish(AcceptedAfterRepair(sql_query, regenerated_sql_query),
                        exec)
  /\ UNCHANGED << user_query, llmCalls, histBefore, runs >>

Next ==
  \/ \E q \in Queries : ChatRequest(q)
  \/ \E text \in IntentTexts : DetermineIntent(text)
  \/ \E o \in GenOutcomes : GenerateSql(o)
  \/ \E text \in ValidationTexts : ValidateSql(text)
  \/ \E o \in DbOutcomes : ExecuteSql(o)
  \/ \E o \in GenOutcomes : RegenerateSql(o)
  \/ \E o \in DbOutcomes : ReExecuteSql(o)

Spec == Init /\ [][Next]_vars

\* process() is straight-line code and every collaborator call returns or
\* raises: a run that has started keeps taking steps.
SpecFair == Spec /\ WF_vars(Next)

\* --------------------------------------------- flight_chat.py: /chat

\* The session the modelled flight_chat requests carry.
FlightSessions == {"session-A"}

\* Position of the first "GROUP BY" in a statement, 0 when there is none.
GroupByAt(sql) ==
  IF \E i \in 1..Len(sql) : sql[i] = "GROUP BY"
    THEN CHOOSE i \in 1..Len(sql) :
           /\ sql[i] = "GROUP BY"
           /\ \A j \in 1..(i - 1) : sql[j] # "GROUP BY"
    ELSE 0

\* The simplified statement, were the limit added to the whole statement.
SimplifiedQueryKeepsGroupBy(sql) == sql \o <<" LIMIT 10;">>

\* chat(): sql_query.split("GROUP BY")[0] + " LIMIT 10;"
SimplifiedQuery(sql) ==
  (IF GroupByAt(sql) = 0 THEN sql ELSE SubSeq(sql, 1, GroupByAt(sql) - 1))
    \o <<" LIMIT 10;">>

\* chat(): backup_query
BackupQuery == <<"SELECT * FROM flights LIMIT 5;">>

\* execute_sql: what the datastore can answer to a statement.  A text with
\* no SELECT clause (the empty text, the bare " LIMIT 10;" that simplifying
\* the empty text gives) is rejected by the driver.
FlightDbOutcomes(sql) ==
  IF sql = EmptyText \/ sql[1] = " LIMIT 10;"
    THEN {o \in DbOutcomes : ~o.ok}
    ELSE DbOutcomes

\* flight_chat.chat: whether the request is rejected before any work.
FlightRejectsQuery(q) == q = EmptyText

\* chat(): the session's turns once the user turn is added and trimmed.
FlightAddUserTurn(history, q) ==
  LastN(Append(history, Turn("user", q)), FlightHistoryLimit)

\* chat(): the session's turns once the generated SQL is added.
FlightAddSqlTurn(history, sql) == Append(history, Turn("assistant", sql))

\* chat(): the turns of session s, created empty on its first request.
FlightHistory(s) == IF s \in DOMAIN conversations THEN conversations[s] ELSE <<>>

SetHistory(s, h) ==
  [x \in DOMAIN conversations \cup {s} |-> IF x = s THEN h ELSE conversations[x]]

\* chat(): the response of a request whose statement ran.
FlightSuccessResponse(sql, df, s) ==
  [code |-> 200, sql_query |-> sql, data |-> HeadN(df, RowCap), session_id |-> s]

\* chat(): the response when an exception reaches "except Exception as sql_error".
FlightSqlErrorResponse(msg, sql, s) ==
  [code |-> 500, error |-> <<"SQL Error: ">> \o msg, sql_query |-> sql,
   session_id |-> s]

\* chat(): the response when an exception reaches the outer handler.
FlightErrorResponse(msg) == [code |-> 500, error |-> msg]

FlightReturn(r) ==
  /\ fc_response' = r
  /\ fc_pc' = "idle"
  /\ fc_sql_query' = EmptyText
  /\ fc_df' = <<>>

\* chat() up to the call of generate_sql.
FlightChatRequest(q, s) ==
  /\ UNCHANGED outsideFlight
  /\ fc_pc = "idle"
  /\ fc_requests < MaxRuns
  /\ fc_requests' = fc_requests + 1
  /\ fc_user_query' = q
  /\ fc_execLog' = <<>>
  /\ fc_generated' = EmptyText
  /\ IF FlightRejectsQuery(q)
       THEN /\ fc_response' = NoQueryResponse
            /\ UNCHANGED << conversations, fc_pc >>
       ELSE /\ conversations' = SetHistory(s, FlightAddUserTurn(FlightHistory(s), q))
            /\ fc_pc' = "generate"
            /\ fc_response' = [code |-> 0, session_id |-> s]
  /\ UNCHANGED << fc_sql_query, fc_df >>

\* chat(): generate_sql and the recording of its statement.
FlightGenerateSql(o) ==
  /\ UNCHANGED outsideFlight
  /\ fc_pc = "generate"
  /\ IF o.ok
       THEN /\ fc_sql_query' = o.text
            /\ fc_generated' = o.text
            /\ conversations' =
                 SetHistory(fc_response.session_id,
                            FlightAddSqlTurn(FlightHistory(fc_response.session_id),
                                             o.text))
            /\ fc_pc' = "execute"
            /\ UNCHANGED << fc_response, fc_df >>
       ELSE /\ FlightReturn(FlightErrorResponse(o.text))
            /\ UNCHANGED << conversations, fc_generated >>
  /\ UNCHANGED << fc_user_query, fc_execLog, fc_requests >>

\* chat(): the generated statement is executed.
FlightExecuteSql(o) ==
  /\ UNCHANGED outsideFlight
  /\ fc_pc = "execute"
  /\ o \in FlightDbOutcomes(fc_sql_query)
  /\ fc_execLog' = Append(fc_execLog, [sql |-> fc_sql_query, ok |-> o.ok])
  /\ IF o.ok
       THEN /\ fc_df' = o.rows
            /\ fc_pc' = "respond"
       ELSE /\ fc_pc' = "simplified"
            /\ UNCHANGED fc_df
  /\ UNCHANGED << conversations, fc_user_query, fc_sql_query, fc_generated,
                  fc_response, fc_requests >>

\* chat(): the simplified statement is executed.
FlightExecuteSimplified(o) ==
  /\ UNCHANGED outsideFlight
  /\ fc_pc = "simplified"
  /\ o \in FlightDbOutcomes(SimplifiedQuery(fc_sql_query))
  /\ fc_execLog' =
       Append(fc_execLog, [sql |-> SimplifiedQuery(fc_sql_query), ok |-> o.ok])
  /\ IF o.ok
       THEN /\ fc_df' = o.rows
            /\ fc_sql_query' = SimplifiedQuery(fc_sql_query)
            /\ fc_pc' = "respond"
       ELSE /\ fc_pc' = "backup"
            /\ UNCHANGED << fc_df, fc_sql_query >>
  /\ UNCHANGED << conversations, fc_user_query, fc_generated, fc_response,
                  fc_requests >>

\* chat(): the backup statement is executed.
FlightExecuteBackup(o) ==
  /\ UNCHANGED outsideFlight
  /\ fc_pc = "backup"
  /\ o \in FlightDbOutcomes(BackupQuery)
  /\ fc_execLog' = Append(fc_execLog, [sql |-> BackupQuery, ok |-> o.ok])
  /\ IF o.ok
       THEN /\ fc_df' = o.rows
            /\ fc_sql_query' = BackupQuery
            /\ fc_pc' = "respond"
            /\ UNCHANGED fc_response
       ELSE FlightReturn(FlightSqlErrorResponse(o.text, fc_sql_query,
                                                fc_response.session_id))
  /\ UNCHANGED << conversations, fc_user_query, fc_generated, fc_requests >>

\* chat(): the analysis and follow-up calls (skipped for an empty result)
\* and the response.
FlightRespond(o) ==
  /\ UNCHANGED outsideFlight
  /\ fc_pc = "respond"
  /\ IF fc_df = <<>> \/ o.ok
       THEN FlightReturn(FlightSuccessResponse(fc_sql_query, fc_df,
                                               fc_response.session_id))
       ELSE FlightReturn(FlightSqlErrorResponse(o.text, fc_sql_query,
                                                fc_response.session_id))
  /\ UNCHANGED << conversations, fc_user_query, fc_generated, fc_execLog,
                  fc_requests >>

FlightNext ==
  \/ \E q \in Queries, s \in FlightSessions : FlightChatRequest(q, s)
  \/ \E o \in GenOutcomes : FlightGenerateSql(o)
  \/ \E o \in DbOutcomes : FlightExecuteSql(o)
  \/ \E o \in DbOutcomes : FlightExecuteSimplified(o)
  \/ \E o \in DbOutcomes : FlightExecuteBackup(o)
  \/ \E o \in AnalysisOutcomes : FlightRespond(o)

SpecFlightChat == Init /\ [][FlightNext]_vars

\* ------------------------------------------------- the three SQL Executors

\* "agent":      SQLExecutionAgent.process (agents/sql_execution), whose
\*               engine is made by __init__ and whose cap is fixed;
\* "run":        SQLExecutionTool.run (agents/sql_execution_tool.py) on a
\*               SQLite file;
\* "run_engine": the same on a connection string, through an engine;
\* "execute":    SQLExecutionTool.execute (tools/sql_execution_tool.py).
ExecutorVariants == {"agent", "run", "run_engine", "execute"}

\* What max_rows can be in a call; the agent's cap is always RowCap.
RowCaps == {0, 2, RowCap}

\* How many rows the datastore can return to a query.
RowCounts == {0, 1, 3, RowCap - 1, RowCap, RowCap + 1, RowCap + 2}

\* The rows of a result of n rows, in the order the datastore returns them.
Rows(n) == [i \in 1..n |-> i]

\* One query of an Executor against the datastore: rows, or a driver error.
ExecDbOutcomes ==
  [ok : {TRUE}, rows : {Rows(n) : n \in RowCounts}, text : {EmptyText}]
    \cup [ok : {FALSE}, rows : {<<>>}, text : DbErrors]

\* A statement the agent is given: any non-empty text.
SomeSql == <<"SELECT month FROM flights">>

\* run() and execute(): the result of a query that ran.
ToolSuccess(rows, cap) ==
  [results |-> HeadN(rows, cap),
   total_rows |-> Len(rows),
   displayed_rows |-> Len(HeadN(rows, cap)),
   status |-> "success"]

\* execute(): the result when the fallback query ran.
ToolFallbackSuccess(rows, cap, primaryError) ==
  [results |-> HeadN(rows, cap),
   total_rows |-> Len(rows),
   displayed_rows |-> Len(HeadN(rows, cap)),
   fallback_used |-> TRUE,
   primary_error |-> primaryError,
   status |-> "success_with_fallback"]

\* run() and execute(): the result of a failed query.
ToolFailure(msg) ==
  [error |-> <<"SQL execution failed: ">> \o msg, status |-> "error"]

\* run(): the result when the engine could not connect.
ToolConnectionFailure(msg) ==
  [error |-> <<"Database connection failed: ">> \o msg, status |-> "error"]

\* run() and execute(): the result when the database file is missing.
ToolFileNotFound ==
  [error |-> <<"Database file not found at nycflights13.db">>,
   status |-> "error"]

\* execute(): the result when the fallback query failed too.
ToolBothFailed(primaryError, fallbackError) ==
  [error |-> <<"Primary query failed: ">> \o primaryError
               \o <<"\nFallback query failed: ">> \o fallbackError,
   status |-> "error"]

\* An exception as the outcome the agent's process() maps to an error.
Raised(msg) == [ok |-> FALSE, rows |-> <<>>, text |-> msg]

\* The call returns r, with the connections and engines in open and
\* engines still not released.
ExecutorReturn(r, open, engines) ==
  /\ ex_result' = r
  /\ ex_open' = open
  /\ ex_engines' = engines
  /\ ex_pc' = "idle"
  /\ UNCHANGED << ex_stage, ex_primaryError >>

\* execute(): an exception reaches "except Exception as primary_error", or,
\* in the fallback, "except Exception as fallback_error".  Neither handler
\* closes the connection that is open.
ExecuteHandlesException(msg) ==
  IF ex_stage = "primary"
    THEN IF ex_fallback
      THEN /\ ex_stage' = "fallback"
           /\ ex_primaryError' = msg
           /\ ex_pc' = "connect"
           /\ UNCHANGED << ex_result, ex_open, ex_engines >>
      ELSE ExecutorReturn(ToolFailure(msg), ex_open, ex_engines)
    ELSE ExecutorReturn(ToolBothFailed(ex_primaryError, msg), ex_open,
                        ex_engines)

\* An Executor is called: the checks made before any connection is opened.
\* present: the agent is given a non-empty statement; the tools find the
\* database file (a connection string is not looked up).
ExecutorCall(v, cap, fallback, present) ==
  /\ UNCHANGED outsideExec
  /\ ex_pc = "idle"
  /\ v = "agent" => cap = RowCap
  /\ v # "execute" => ~fallback
  /\ v = "run_engine" => present
  /\ ex_variant' = v
  /\ ex_cap' = cap
  /\ ex_fallback' = fallback
  /\ ex_stage' = "primary"
  /\ ex_primaryError' = EmptyText
  /\ ex_df' = <<>>
  /\ ex_open' = 0
  /\ ex_engines' = 0
  /\ IF present
       THEN /\ ex_pc' = "connect"
            /\ ex_result' = NoResult
       ELSE /\ ex_pc' = "idle"
            /\ ex_result' =
                 IF v = "agent"
                   THEN ExecutorProcess(EmptyText, Raised(EmptyText))
                   ELSE ToolFileNotFound

\* The call opens its connection: engine.connect() in the agent,
\* sqlite3.connect() or create_engine() and engine.connect() in the tools.
ExecutorConnect(ok, msg) ==
  /\ UNCHANGED outsideExec
  /\ ex_pc = "connect"
  /\ UNCHANGED << ex_variant, ex_cap, ex_fallback, ex_df >>
  /\ IF ok
       THEN /\ ex_open' = ex_open + 1
            /\ ex_engines' =
                 IF ex_variant = "run_engine" THEN ex_engines + 1 ELSE ex_engines
            /\ ex_pc' = "query"
            /\ UNCHANGED << ex_result, ex_stage, ex_primaryError >>
       ELSE CASE ex_variant = "agent" ->
                   ExecutorReturn(ExecutorProcess(SomeSql, Raised(msg)),
                                  ex_open, ex_engines)
              [] ex_variant = "run" ->
                   ExecutorReturn(ToolFailure(msg), 0, 0)
              [] ex_variant = "run_engine" ->
                   ExecutorReturn(ToolConnectionFailure(msg), 0, 0)
              [] ex_variant = "execute" ->
                   ExecuteHandlesException(msg)

\* The call sends its statement to the datastore.  The agent's "with" block
\* closes the connection whatever happens; run() closes connection and
\* engine in its "finally"; execute() closes the connection only after a
\* query that succeeded.
ExecutorQuery(o) ==
  /\ UNCHANGED outsideExec
  /\ ex_pc = "query"
  /\ UNCHANGED << ex_variant, ex_cap, ex_fallback >>
  /\ ex_df' = o.rows
  /\ CASE ex_variant = "agent" ->
            IF o.ok
              THEN /\ ex_open' = ex_open - 1
                   /\ ex_pc' = "convert"
                   /\ UNCHANGED << ex_result, ex_engines, ex_stage,
                                   ex_primaryError >>
              ELSE ExecutorReturn(ExecutorProcess(SomeSql, o), ex_open - 1,
                                  ex_engines)
       [] ex_variant \in {"run", "run_engine"} ->
            IF o.ok
              THEN /\ ex_pc' = "convert"
                   /\ UNCHANGED << ex_result, ex_open, ex_engines, ex_stage,
                                   ex_primaryError >>
              ELSE ExecutorReturn(ToolFailure(o.text), 0, 0)
       [] ex_variant = "execute" ->
            IF o.ok
              THEN /\ ex_open' = ex_open - 1
                   /\ ex_pc' = "convert"
                   /\ UNCHANGED << ex_result, ex_engines, ex_stage,
                                   ex_primaryError >>
              ELSE ExecuteHandlesException(o.text)

\* The call turns the rows into records (to_dict) and builds its result.
ExecutorConvert(ok, msg) ==
  /\ UNCHANGED outsideExec
  /\ ex_pc = "convert"
  /\ UNCHANGED << ex_variant, ex_cap, ex_fallback, ex_df >>
  /\ CASE ex_variant = "agent" ->
            ExecutorReturn(
              ExecutorProcess(SomeSql,
                              IF ok THEN [ok |-> TRUE, rows |-> ex_df,
                                          text |-> EmptyText]
                                    ELSE Raised(msg)),
              ex_open, ex_engines)
       [] ex_variant \in {"run", "run_engine"} ->
            ExecutorReturn(IF ok THEN ToolSuccess(ex_df, ex_cap)
                                 ELSE ToolFailure(msg), 0, 0)
       [] ex_variant = "execute" ->
            IF ok
              THEN ExecutorReturn(
                     IF ex_stage = "primary"
                       THEN ToolSuccess(ex_df, ex_cap)
                       ELSE ToolFallbackSuccess(ex_df, ex_cap, ex_primaryError),
                     ex_open, ex_engines)
              ELSE ExecuteHandlesException(msg)

ExecutorNext ==
  \/ \E v \in ExecutorVariants, cap \in RowCaps, fallback, present \in BOOLEAN :
       ExecutorCall(v, cap, fallback, present)
  \/ \E ok \in BOOLEAN, msg \in DbErrors : ExecutorConnect(ok, msg)
  \/ \E o \in ExecDbOutcomes : ExecutorQuery(o)
  \/ \E ok \in BOOLEAN, msg \in DbErrors : ExecutorConvert(ok, msg)

SpecExecutor == Init /\ [][ExecutorNext]_vars

\* ------------------------------------- the Generator's cleanup of its output

\* Model output is a sequence of pieces of text.  The pieces are the ones
\* the cleanup tells apart: a backtick (written "backtick" here), the word
\* "sql", a newline, a space,
\* a semicolon, the names of the two banned functions, an opening
\* parenthesis, and any other SQL text.
RawAlphabet ==
  {"backtick", "sql", "\n", " ", ";", "EXTRACT", "ROUND", "(", "SELECT 1"}

\* str.strip() removes these from both ends.
Whitespace == {"\n", " "}

Fence == <<"backtick", "backtick", "backtick">>

SqlFence == <<"backtick", "backtick", "backtick", "sql">>

ExtractCall == <<"EXTRACT", "(">>

RoundCall == <<"ROUND", "(">>

TextsUpTo(n) == UNION {[1..k -> RawAlphabet] : k \in 0..n}

\* The statement s as a model often returns it: an opening fence line with "sql",
\* s, and a closing fence line.
Fenced(s) == SqlFence \o <<"\n">> \o s \o <<"\n">> \o Fence

\* What one completion of the model can be.
RawTexts ==
  TextsUpTo(MaxLen) \cup {Fenced(s) : s \in TextsUpTo(MaxStatementLen)}

\* str.startswith, str.endswith
StartsWith(s, p) == Len(s) >= Len(p) /\ SubSeq(s, 1, Len(p)) = p

EndsWith(s, p) ==
  Len(s) >= Len(p) /\ SubSeq(s, Len(s) - Len(p) + 1, Len(s)) = p

\* c in s, for one piece c
Contains(s, c) == \E i \in 1..Len(s) : s[i] = c

\* str.find(c) + 1 and str.rfind(c) + 1, for a piece c that s contains
IndexOf(s, c) ==
  CHOOSE i \in 1..Len(s) : s[i] = c /\ \A j \in 1..(i - 1) : s[j] # c

LastIndexOf(s, c) ==
  CHOOSE i \in 1..Len(s) : s[i] = c /\ \A j \in (i + 1)..Len(s) : s[j] # c

\* str.replace(old, new): every occurrence, found from the left, without
\* overlap.
RECURSIVE Replace(_, _, _)
Replace(s, old, new) ==
  IF s = <<>>
    THEN <<>>
    ELSE IF StartsWith(s, old)
      THEN new \o Replace(SubSeq(s, Len(old) + 1, Len(s)), old, new)
      ELSE <<Head(s)>> \o Replace(Tail(s), old, new)

\* str.lstrip(), str.rstrip(), str.strip()
RECURSIVE LStrip(_)
LStrip(s) ==
  IF s # <<>> /\ Head(s) \in Whitespace THEN LStrip(Tail(s)) ELSE s

RECURSIVE RStrip(_)
RStrip(s) ==
  IF s # <<>> /\ s[Len(s)] \in Whitespace
    THEN RStrip(SubSeq(s, 1, Len(s) - 1))
    ELSE s

Strip(s) == RStrip(LStrip(s))

\* Whether s.split("\n", 1)[1] raises IndexError: there is no second part.
NoSecondPart(s) == ~Contains(s, "\n")

\* The text kept of a fenced output, were the first part of the split taken.
FirstLine(s) == SubSeq(s, 1, IndexOf(s, "\n") - 1)

\* s.split("\n", 1)[1], for s with a newline
AfterFirstNewline(s) == SubSeq(s, IndexOf(s, "\n") + 1, Len(s))

\* s.rsplit("\n", 1)[0]
BeforeLastNewline(s) ==
  IF Contains(s, "\n") THEN SubSeq(s, 1, LastIndexOf(s, "\n") - 1) ELSE s

\* The truncation, were the terminator left off and the test on the end of
\* the text missing.
KeepFirstStatementUnterminated(s) ==
  IF Contains(s, ";") THEN SubSeq(s, 1, IndexOf(s, ";") - 1) ELSE s

\* _clean_sql_query: "if ';' in sql_query and not sql_query.endswith(';'):
\* sql_query = sql_query.split(';')[0] + ';'"
KeepFirstStatement(s) ==
  IF Contains(s, ";") /\ ~EndsWith(s, <<";">>)
    THEN SubSeq(s, 1, IndexOf(s, ";") - 1) \o <<";">>
    ELSE s

\* The replacement of the banned calls, were ROUND( forgotten.
ReplaceBannedExtractOnly(s) == Replace(s, ExtractCall, <<"date_part", "(">>)

\* _clean_sql_query: replace("EXTRACT(", "date_part(") and then
\* replace("ROUND(", "CAST(")
ReplaceBanned(s) ==
  Replace(Replace(s, ExtractCall, <<"date_part", "(">>),
          RoundCall, <<"CAST", "(">>)

\* _clean_sql_query: the fence lines are dropped, then every fence that is
\* left.  Only called for s on which the split does not raise.
StripFences(s) ==
  LET opened == IF StartsWith(s, Fence) THEN AfterFirstNewline(s) ELSE s
      closed == IF EndsWith(opened, Fence) THEN BeforeLastNewline(opened)
                                            ELSE opened
  IN Strip(Replace(Replace(closed, SqlFence, <<>>), Fence, <<>>))

\* _clean_sql_query as the Generator sees it: the cleaned text, or the
\* IndexError of a text that opens with a fence and has no newline.
CleanSqlQuery(s) ==
  IF StartsWith(s, Fence) /\ NoSecondPart(s)
    THEN [ok |-> FALSE, text |-> <<"list index out of range">>]
    ELSE [ok |-> TRUE, text |-> ReplaceBanned(KeepFirstStatement(StripFences(s)))]

\* SQLGenerationAgent.process, when the model call has returned its text:
\* one call is followed from there to its return.
InitCleanup ==
  /\ InitComponents
  /\ NoProgressYet
  /\ cl_pc = "strip"
  /\ cl_raw \in RawTexts
  /\ cl_text = EmptyText
  /\ cl_result = NoResult

\* process(): "sql_query = response.content[0].text.strip()"
GeneratorStripOutput ==
  /\ UNCHANGED outsideCleanup
  /\ cl_pc = "strip"
  /\ cl_text' = Strip(cl_raw)
  /\ cl_pc' = "clean"
  /\ UNCHANGED << cl_raw, cl_result >>

\* process(): the cleanup and the return of its text, or of the error when
\* the cleanup raised.
GeneratorCleanOutput ==
  /\ UNCHANGED outsideCleanup
  /\ cl_pc = "clean"
  /\ cl_result' = GeneratorProcess(CleanSqlQuery(cl_text))
  /\ cl_pc' = "returned"
  /\ UNCHANGED << cl_raw, cl_text >>

CleanupNext ==
  \/ GeneratorStripOutput
  \/ GeneratorCleanOutput

SpecCleanup == InitCleanup /\ [][CleanupNext]_vars

\* ------------------- integration_example.py: /agentic-chat, /clear-session

\* The session tokens requests carry; "none": the request carries none.
SessionTokens == {"session-A", "session-B"}

NoToken == "none"

\* AgentAPI.process_query: the token made up for the first request without.
GeneratedToken == "session_generated"

\* What the two model calls of the orchestrator of agents/orchestrator_agent.py
\* can do: the planning call raises, the response call raises, or both
\* complete.
AgenticOutcomes == {"plan_raises", "response_raises", "completed"}

\* BaseAgent.add_to_history: append, and keep the last 10.
AddToHistory(history, entry) == LastN(Append(history, entry), HistoryLimit)

\* AgentAPI.process_query: "if session_id: ... elif not self.session_id: ..."
EffectiveToken(token) ==
  IF token # NoToken THEN token
  ELSE IF ag_session_id = NoToken THEN GeneratedToken
  ELSE ag_session_id

\* The history a request with the given token works on: AgentAPI has one
\* orchestrator, whose conversation_history serves every token.
HistoryFor(token) == ag_history

\* clear_session: whether the handler clears anything for the token.
ClearsHistory(token) == token \in active_sessions

\* /agentic-chat: one request, from the handler through AgentAPI.process_query
\* and OrchestratorAgent.process to the response.
AgenticChat(q, token, outcome) ==
  /\ UNCHANGED outsideAgentic
  /\ ag_requests < MaxRuns
  /\ ag_requests' = ag_requests + 1
  /\ ag_before' = ag_history
  /\ IF q = EmptyText
       THEN /\ ag_response' = NoQueryResponse
            /\ ag_last' = [op |-> "rejected", token |-> token]
            /\ UNCHANGED << ag_history, ag_owners, ag_session_id,
                            active_sessions, ag_planOwners, ag_left,
                            ag_expected >>
       ELSE LET session == EffectiveToken(token)
                asked == AddToHistory(ag_history, Turn("user", q))
                askedOwners == LastN(Append(ag_owners, session), HistoryLimit)
                answered == AddToHistory(asked, Turn("assistant", <<"answer">>))
                left == IF outcome = "completed" THEN answered ELSE asked
            IN /\ ag_session_id' = session
               /\ ag_last' = [op |-> "chat", token |-> session]
               /\ ag_planOwners' = askedOwners
               /\ ag_expected' = ag_left[session]
               /\ ag_left' = [ag_left EXCEPT ![session] = left]
               /\ IF outcome = "completed"
                    THEN /\ ag_history' = answered
                         /\ ag_owners' =
                              LastN(Append(askedOwners, session), HistoryLimit)
                         /\ ag_response' = [code |-> 200, content |-> <<"answer">>]
                         /\ active_sessions' =
                              IF token # NoToken
                                THEN active_sessions \cup {token}
                                ELSE active_sessions
                    ELSE /\ ag_history' = asked
                         /\ ag_owners' = askedOwners
                         /\ ag_response' = [code |-> 500, error |-> <<"overloaded">>]
                         /\ UNCHANGED active_sessions

\* /clear-session: one request.
ClearSession(token) ==
  /\ UNCHANGED outsideAgentic
  /\ ag_requests < MaxRuns
  /\ ag_requests' = ag_requests + 1
  /\ ag_before' = ag_history
  /\ UNCHANGED << ag_session_id, ag_planOwners >>
  /\ IF token = NoToken
       THEN /\ ag_response' = [code |-> 400, error |-> <<"No session ID provided">>]
            /\ ag_last' = [op |-> "rejected", token |-> token]
            /\ UNCHANGED << ag_history, ag_owners, active_sessions, ag_left,
                            ag_expected >>
       ELSE /\ ag_response' = [code |-> 200, status |-> "success"]
            /\ ag_last' = [op |-> "clear", token |-> token]
            /\ ag_expected' = ag_left[token]
            /\ ag_left' =
                 [ag_left EXCEPT
                    ![token] = IF ClearsHistory(token) THEN <<>> ELSE ag_history]
            /\ IF ClearsHistory(token)
                 THEN /\ ag_history' = <<>>
                      /\ ag_owners' = <<>>
                      /\ active_sessions' = active_sessions \ {token}
                 ELSE UNCHANGED << ag_history, ag_owners, active_sessions >>

AgenticNext ==
  \/ \E q \in Queries, token \in SessionTokens \cup {NoToken},
        outcome \in AgenticOutcomes : AgenticChat(q, token, outcome)
  \/ \E token \in SessionTokens \cup {NoToken} : ClearSession(token)

SpecAgentic == Init /\ [][AgenticNext]_vars

\* ------------------------------------ agent_chat.py: the sessions of /chat

\* The threads in which the server runs chat(): two requests can be inside
\* the handler at once.
Threads == {"thread-1", "thread-2"}

\* The session_id of a request body: none, or a token the client chose.
NoSessionId == [kind |-> "none", n |-> 0]

ClientSessionIds == {[kind |-> "client", n |-> 1]}

\* chat(): str(uuid.uuid4()), different for every request.
NewUuid(n) == [kind |-> "uuid", n |-> n]

\* chat() up to "if session_id not in orchestrators".
SessionChatBegin(w, q, token) ==
  /\ UNCHANGED outsideSessions
  /\ ss_pc[w] = "idle"
  /\ ss_requests < MaxRuns
  /\ ss_requests' = ss_requests + 1
  /\ ss_request' = [ss_request EXCEPT ![w] = ss_requests + 1]
  /\ ss_orchestrator' = [ss_orchestrator EXCEPT ![w] = 0]
  /\ IF RejectsQuery(q)
       THEN /\ ss_response' = [ss_response EXCEPT ![w] = 400]
            /\ UNCHANGED << ss_pc, ss_session_id >>
       ELSE /\ ss_session_id' =
                 [ss_session_id EXCEPT ![w] =
                    IF token = NoSessionId THEN NewUuid(ss_requests + 1)
                                           ELSE token]
            /\ ss_pc' = [ss_pc EXCEPT ![w] = "lookup"]
            /\ ss_response' = [ss_response EXCEPT ![w] = 0]
  /\ UNCHANGED << orchestrators, ss_created, ss_history, ss_served >>

\* chat(): the test "session_id not in orchestrators".
SessionLookup(w) ==
  /\ UNCHANGED outsideSessions
  /\ ss_pc[w] = "lookup"
  /\ ss_pc' = [ss_pc EXCEPT ![w] =
                 IF ss_session_id[w] \in DOMAIN orchestrators THEN "fetch"
                                                              ELSE "create"]
  /\ UNCHANGED << orchestrators, ss_created, ss_history, ss_session_id,
                  ss_orchestrator, ss_request, ss_response, ss_served,
                  ss_requests >>

\* chat(): "orchestrators[session_id] = create_orchestrator(...)"; when the
\* constructor raises, the outer handler answers 500.
SessionCreate(w, ok) ==
  /\ UNCHANGED outsideSessions
  /\ ss_pc[w] = "create"
  /\ IF ok
       THEN /\ ss_created' = ss_created + 1
            /\ ss_history' =
                 [o \in DOMAIN ss_history \cup {ss_created + 1} |->
                    IF o = ss_created + 1 THEN << >> ELSE ss_history[o]]
            /\ orchestrators' =
                 [t \in DOMAIN orchestrators \cup {ss_session_id[w]} |->
                    IF t = ss_session_id[w] THEN ss_created + 1
                                            ELSE orchestrators[t]]
            /\ ss_pc' = [ss_pc EXCEPT ![w] = "fetch"]
            /\ UNCHANGED ss_response
       ELSE /\ ss_pc' = [ss_pc EXCEPT ![w] = "idle"]
            /\ ss_response' = [ss_response EXCEPT ![w] = 500]
            /\ UNCHANGED << orchestrators, ss_created, ss_history >>
  /\ UNCHANGED << ss_session_id, ss_orchestrator, ss_request, ss_served,
                  ss_requests >>

\* chat(): "orchestrator = orchestrators[session_id]".
SessionFetch(w) ==
  /\ UNCHANGED outsideSessions
  /\ ss_pc[w] = "fetch"
  /\ ss_orchestrator' =
       [ss_orchestrator EXCEPT ![w] = orchestrators[ss_session_id[w]]]
  /\ ss_pc' = [ss_pc EXCEPT ![w] = "process"]
  /\ UNCHANGED << orchestrators, ss_created, ss_history, ss_session_id,
                  ss_request, ss_response, ss_served, ss_requests >>

\* chat(): orchestrator.process(...), which records the request's turn in
\* the history of that orchestrator, and the response.
SessionProcess(w, ok) ==
  /\ UNCHANGED outsideSessions
  /\ ss_pc[w] = "process"
  /\ ss_history' =
       [ss_history EXCEPT ![ss_orchestrator[w]] =
          Append(@, Turn("user", ss_request[w]))]
  /\ ss_served' = ss_served \cup
       {[token |-> ss_session_id[w], orchestrator |-> ss_orchestrator[w],
         request |-> ss_request[w]]}
  /\ ss_response' = [ss_response EXCEPT ![w] = IF ok THEN 200 ELSE 500]
  /\ ss_pc' = [ss_pc EXCEPT ![w] = "idle"]
  /\ UNCHANGED << orchestrators, ss_created, ss_session_id, ss_orchestrator,
                  ss_request, ss_requests >>

SessionNext ==
  \/ \E w \in Threads, q \in Queries, t \in ClientSessionIds \cup {NoSessionId} :
       SessionChatBegin(w, q, t)
  \/ \E w \in Threads : SessionLookup(w)
  \/ \E w \in Threads, ok \in BOOLEAN : SessionCreate(w, ok)
  \/ \E w \in Threads : SessionFetch(w)
  \/ \E w \in Threads, ok \in BOOLEAN : SessionProcess(w, ok)

SpecSessions == Init /\ [][SessionNext]_vars

\* ----------------------- agent_chat.py: progress_callback and /progress

\* One session's key of progress_events is followed.  The /chat request of
\* the session reports its events one after the other in its own thread;
\* each /progress request runs in a thread of its own.
Pollers == {"poll-1", "poll-2"}

\* The list objects that are still referenced after a step.
Referenced(stored, appending, polled) ==
  ({stored, appending} \cup {polled[p] : p \in Pollers}) \ {0}

\* The heap once the unreferenced lists are gone.
Collect(heap, refs) == [i \in DOMAIN heap \cap refs |-> heap[i]]

\* The heap with list i set to events.
WithList(heap, i, events) ==
  [j \in DOMAIN heap \cup {i} |-> IF j = i THEN events ELSE heap[j]]

\* A new list object: one that the heap does not hold.
FreshList(heap) ==
  CHOOSE i \in 1..(Cardinality(DOMAIN heap) + 1) : i \notin DOMAIN heap

Elements(events) == {events[i] : i \in 1..Len(events)}

\* progress_callback: "if session_id not in progress_events:
\* progress_events[session_id] = []".
CallbackBegin ==
  /\ UNCHANGED outsideProgress
  /\ pe_cb_pc = "idle"
  /\ pe_calls < MaxEvents
  /\ pe_calls' = pe_calls + 1
  /\ pe_reported' = pe_reported + 1
  /\ IF progress_events = 0
       THEN LET new == FreshList(pe_lists) IN
              /\ progress_events' = new
              /\ pe_lists' = WithList(pe_lists, new, << >>)
       ELSE UNCHANGED << progress_events, pe_lists >>
  /\ pe_cb_pc' = "load"
  /\ UNCHANGED << pe_cb_list, pe_cb_slice, pe_cb_dropped, pe_sinceClear,
                  pe_evicted, pe_poll_pc, pe_poll_events, pe_returned >>

\* progress_callback: "progress_events[session_id]" of the append statement
\* is evaluated before the event is built.
CallbackLoad ==
  /\ UNCHANGED outsideProgress
  /\ pe_cb_pc = "load"
  /\ pe_cb_list' = progress_events
  /\ pe_cb_pc' = "append"
  /\ UNCHANGED << progress_events, pe_lists, pe_cb_slice, pe_cb_dropped,
                  pe_reported, pe_sinceClear, pe_evicted, pe_poll_pc,
                  pe_poll_events, pe_returned,
                  pe_calls >>

\* progress_callback: ".append({...})" on the list that was loaded.
CallbackAppend ==
  /\ UNCHANGED outsideProgress
  /\ pe_cb_pc = "append"
  /\ pe_lists' =
       Collect(WithList(pe_lists, pe_cb_list,
                        Append(pe_lists[pe_cb_list], pe_reported)),
               Referenced(progress_events, 0, pe_poll_events))
  /\ pe_cb_list' = 0
  /\ pe_sinceClear' = pe_sinceClear + 1
  /\ pe_cb_pc' = "len"
  /\ UNCHANGED << progress_events, pe_cb_slice, pe_cb_dropped, pe_reported,
                  pe_evicted, pe_poll_pc, pe_poll_events, pe_returned,
                  pe_calls >>

\* progress_callback: "if len(progress_events[session_id]) > 50".
CallbackLen ==
  /\ UNCHANGED outsideProgress
  /\ pe_cb_pc = "len"
  /\ pe_cb_pc' = IF Len(pe_lists[progress_events]) > ProgressCap THEN "slice"
                                                                  ELSE "idle"
  /\ UNCHANGED << progress_events, pe_lists, pe_cb_list, pe_cb_slice,
                  pe_cb_dropped, pe_reported, pe_sinceClear, pe_evicted,
                  pe_poll_pc, pe_poll_events, pe_returned,
                  pe_calls >>

\* The callback's trim, were it to keep the first 50 events.
CallbackSliceKeepsOldest ==
  /\ UNCHANGED outsideProgress
  /\ pe_cb_pc = "slice"
  /\ pe_cb_slice' = HeadN(pe_lists[progress_events], ProgressCap)
  /\ pe_cb_dropped' =
       Elements(pe_lists[progress_events])
         \ Elements(HeadN(pe_lists[progress_events], ProgressCap))
  /\ pe_cb_pc' = "assign"
  /\ UNCHANGED << progress_events, pe_lists, pe_cb_list, pe_reported,
                  pe_sinceClear, pe_evicted, pe_poll_pc, pe_poll_events,
                  pe_returned, pe_calls >>

\* progress_callback: "progress_events[session_id][-50:]", a new list.
CallbackSlice ==
  /\ UNCHANGED outsideProgress
  /\ pe_cb_pc = "slice"
  /\ pe_cb_slice' = LastN(pe_lists[progress_events], ProgressCap)
  /\ pe_cb_dropped' =
       Elements(pe_lists[progress_events])
         \ Elements(LastN(pe_lists[progress_events], ProgressCap))
  /\ pe_cb_pc' = "assign"
  /\ UNCHANGED << progress_events, pe_lists, pe_cb_list, pe_reported,
                  pe_sinceClear, pe_evicted, pe_poll_pc, pe_poll_events,
                  pe_returned,
                  pe_calls >>

\* progress_callback: "progress_events[session_id] = ..." of the slice.
CallbackAssign ==
  /\ UNCHANGED outsideProgress
  /\ pe_cb_pc = "assign"
  /\ LET new == FreshList(pe_lists) IN
       /\ progress_events' = new
       /\ pe_lists' =
            Collect(WithList(pe_lists, new, pe_cb_slice),
                    Referenced(new, 0, pe_poll_events))
  /\ pe_evicted' = pe_evicted \cup pe_cb_dropped
  /\ pe_cb_slice' = << >>
  /\ pe_cb_dropped' = {}
  /\ pe_cb_pc' = "idle"
  /\ UNCHANGED << pe_cb_list, pe_reported, pe_sinceClear, pe_poll_pc,
                  pe_poll_events, pe_returned,
                  pe_calls >>

\* get_progress: "events = progress_events.get(session_id, [])".
PollGet(p) ==
  /\ UNCHANGED outsideProgress
  /\ pe_poll_pc[p] = "ready"
  /\ IF progress_events = 0
       THEN LET new == FreshList(pe_lists) IN
              /\ pe_poll_events' = [pe_poll_events EXCEPT ![p] = new]
              /\ pe_lists' = WithList(pe_lists, new, << >>)
       ELSE /\ pe_poll_events' = [pe_poll_events EXCEPT ![p] = progress_events]
            /\ UNCHANGED pe_lists
  /\ pe_poll_pc' = [pe_poll_pc EXCEPT ![p] = "clear"]
  /\ UNCHANGED << progress_events, pe_cb_pc, pe_cb_list, pe_cb_slice,
                  pe_cb_dropped, pe_reported, pe_sinceClear, pe_evicted,
                  pe_returned,
                  pe_calls >>

\* get_progress: "progress_events[session_id] = []".
PollClear(p) ==
  /\ UNCHANGED outsideProgress
  /\ pe_poll_pc[p] = "clear"
  /\ LET new == FreshList(pe_lists) IN
       /\ progress_events' = new
       /\ pe_lists' =
            Collect(WithList(pe_lists, new, << >>),
                    Referenced(new, pe_cb_list, pe_poll_events))
  /\ pe_sinceClear' = 0
  /\ pe_poll_pc' = [pe_poll_pc EXCEPT ![p] = "return"]
  /\ UNCHANGED << pe_cb_pc, pe_cb_list, pe_cb_slice, pe_cb_dropped,
                  pe_reported, pe_evicted, pe_poll_events, pe_returned,
                  pe_calls >>

\* get_progress: "return jsonify({'events': events})", which reads the list
\* as it is now.
PollReturn(p) ==
  /\ UNCHANGED outsideProgress
  /\ pe_poll_pc[p] = "return"
  /\ pe_returned' = [pe_returned EXCEPT ![p] = pe_lists[pe_poll_events[p]]]
  /\ pe_poll_events' = [pe_poll_events EXCEPT ![p] = 0]
  /\ pe_lists' =
       Collect(pe_lists,
               Referenced(progress_events, pe_cb_list,
                          [pe_poll_events EXCEPT ![p] = 0]))
  /\ pe_poll_pc' = [pe_poll_pc EXCEPT ![p] = "done"]
  /\ UNCHANGED << progress_events, pe_cb_pc, pe_cb_list, pe_cb_slice,
                  pe_cb_dropped, pe_reported, pe_sinceClear, pe_evicted,
                  pe_calls >>

ProgressNext ==
  \/ CallbackBegin
  \/ CallbackLoad
  \/ CallbackAppend
  \/ CallbackLen
  \/ CallbackSlice
  \/ CallbackAssign
  \/ \E p \in Pollers : PollGet(p)
  \/ \E p \in Pollers : PollClear(p)
  \/ \E p \in Pollers : PollReturn(p)

\* The callbacks and polls are followed from a moment at which the session
\* holds no event yet, or the events of earlier requests, one short of the
\* cap, that no poll has fetched.
InitProgress ==
  /\ InitComponents
  /\ NoGeneratorCall
  /\ \E n \in {0, ProgressCap - 1} : ProgressAfter(n)

SpecProgress == InitProgress /\ [][ProgressNext]_vars

\* --------------------- agents/orchestrator_agent.py: tools and their registry

\* The names of the tools there are, and the tool objects: two objects can
\* have the same name.
ToolNames == {"generate_sql", "execute_sql"}

ToolObjects == [name : ToolNames, id : {1, 2}]

\* The entries a plan can hold: the name of a tool there is, a name that no
\* tool has, or an entry without the key "name".
UnknownTool == "visualize_data"

NoNameEntry == "NO_NAME"

\* What _plan_tools can return (a completion that cannot be parsed gives the
\* empty plan).
Plans ==
  { << >>,
    <<"generate_sql", "execute_sql">>,
    <<"generate_sql", UnknownTool, "execute_sql">>,
    <<UnknownTool>>,
    <<"execute_sql", NoNameEntry, "generate_sql">> }

\* _plan_tools: the plan, or the exception of its model call.
PlanOutcomes == [ok : {TRUE}, plan : Plans] \cup [ok : {FALSE}, plan : {<< >>}]

\* list.remove(x): the list without its first element equal to x.
RemoveFirst(list, x) ==
  LET at == CHOOSE i \in 1..Len(list) :
              list[i] = x /\ \A j \in 1..(i - 1) : list[j] # x
  IN SubSeq(list, 1, at - 1) \o SubSeq(list, at + 1, Len(list))

\* What process() hands back: a response, or an exception.
ToolsRaised == [kind |-> "raised"]

\* register_tool.
RegisterTool(t) ==
  /\ UNCHANGED outsideTools
  /\ tl_pc = "idle"
  /\ tl_calls < MaxToolCalls
  /\ tl_calls' = tl_calls + 1
  /\ tools' = Append(tools, t)
  /\ tool_registry' =
       [n \in DOMAIN tool_registry \cup {t.name} |->
          IF n = t.name THEN t ELSE tool_registry[n]]
  /\ UNCHANGED << execution_history, tl_history, tl_pc, tl_plan, tl_index,
                  tl_results, tl_response, tl_first, tl_registered >>

\* unregister_tool: list.remove raises when the tool is not in the list,
\* before the registry is touched.
UnregisterTool(n) ==
  /\ UNCHANGED outsideTools
  /\ tl_pc = "idle"
  /\ tl_calls < MaxToolCalls
  /\ tl_calls' = tl_calls + 1
  /\ IF n \in DOMAIN tool_registry
          /\ \E i \in 1..Len(tools) : tools[i] = tool_registry[n]
       THEN /\ tools' = RemoveFirst(tools, tool_registry[n])
            /\ tool_registry' =
                 [m \in DOMAIN tool_registry \ {n} |-> tool_registry[m]]
       ELSE UNCHANGED << tools, tool_registry >>
  /\ UNCHANGED << execution_history, tl_history, tl_pc, tl_plan, tl_index,
                  tl_results, tl_response, tl_first, tl_registered >>

\* process() up to the call of _plan_tools.
ToolsProcessBegin(q) ==
  /\ UNCHANGED outsideTools
  /\ tl_pc = "idle"
  /\ tl_calls < MaxToolCalls
  /\ tl_calls' = tl_calls + 1
  /\ tl_plan' = << >>
  /\ tl_index' = 1
  /\ tl_results' = << >>
  /\ tl_first' = Len(execution_history)
  /\ tl_registered' = DOMAIN tool_registry
  /\ IF q = EmptyText
       THEN /\ tl_response' =
                 [kind |-> "returned",
                  error |-> <<"No user query provided">>]
            /\ UNCHANGED << tl_history, tl_pc >>
       ELSE /\ tl_history' = AddToHistory(tl_history, Turn("user", q))
            /\ tl_pc' = "plan"
            /\ tl_response' = [kind |-> "none"]
  /\ UNCHANGED << tools, tool_registry, execution_history >>

\* process(): "tools_to_use = await self._plan_tools(...)".
ToolsPlan(o) ==
  /\ UNCHANGED outsideTools
  /\ tl_pc = "plan"
  /\ IF o.ok
       THEN /\ tl_plan' = o.plan
            /\ tl_pc' = "loop"
            /\ UNCHANGED tl_response
       ELSE /\ tl_response' = ToolsRaised
            /\ tl_pc' = "idle"
            /\ UNCHANGED tl_plan
  /\ UNCHANGED << tools, tool_registry, execution_history, tl_history,
                  tl_index, tl_results, tl_first, tl_registered, tl_calls >>

\* The end of a tool's execution, were a failure to end the loop.
ToolFinishStopsAtFailure(ok) ==
  /\ UNCHANGED outsideTools
  /\ tl_pc = "executing"
  /\ LET name == tl_plan[tl_index]
         last == Len(execution_history)
     IN IF ok
          THEN /\ execution_history' =
                    [execution_history EXCEPT ![last] =
                       [tool |-> name, status |-> "completed",
                        result |-> <<"result of ", name>>]]
               /\ tl_results' =
                    Append(tl_results,
                           [tool |-> name, result |-> <<"result of ", name>>])
               /\ tl_index' = tl_index + 1
          ELSE /\ execution_history' =
                    [execution_history EXCEPT ![last] =
                       [tool |-> name, status |-> "failed",
                        error |-> <<"tool failed">>]]
               /\ tl_results' =
                    Append(tl_results,
                           [tool |-> name, error |-> <<"tool failed">>])
               /\ tl_index' = Len(tl_plan) + 1
  /\ tl_pc' = "loop"
  /\ UNCHANGED << tools, tool_registry, tl_history, tl_plan, tl_response,
                  tl_first, tl_registered, tl_calls >>

\* process(): the head of the loop for one planned tool.  An entry without
\* a name raises KeyError out of process(); a name that is not registered
\* is skipped; a registered tool gets its record, with status started.
ToolStart ==
  /\ UNCHANGED outsideTools
  /\ tl_pc = "loop"
  /\ tl_index <= Len(tl_plan)
  /\ LET name == tl_plan[tl_index] IN
       IF name = NoNameEntry
         THEN /\ tl_response' = ToolsRaised
              /\ tl_pc' = "idle"
              /\ UNCHANGED << execution_history, tl_index >>
         ELSE IF name \notin DOMAIN tool_registry
           THEN /\ tl_index' = tl_index + 1
                /\ UNCHANGED << execution_history, tl_pc, tl_response >>
           ELSE /\ execution_history' =
                     Append(execution_history,
                            [tool |-> name, status |-> "started"])
                /\ tl_pc' = "executing"
                /\ UNCHANGED << tl_index, tl_response >>
  /\ UNCHANGED << tools, tool_registry, tl_history, tl_plan, tl_results,
                  tl_first, tl_registered, tl_calls >>

\* process(): "await tool.execute(**tool_params)" has returned or raised;
\* the record and the results are updated either way.
ToolFinish(ok) ==
  /\ UNCHANGED outsideTools
  /\ tl_pc = "executing"
  /\ LET name == tl_plan[tl_index]
         last == Len(execution_history)
     IN IF ok
          THEN /\ execution_history' =
                    [execution_history EXCEPT ![last] =
                       [tool |-> name, status |-> "completed",
                        result |-> <<"result of ", name>>]]
               /\ tl_results' =
                    Append(tl_results,
                           [tool |-> name, result |-> <<"result of ", name>>])
          ELSE /\ execution_history' =
                    [execution_history EXCEPT ![last] =
                       [tool |-> name, status |-> "failed",
                        error |-> <<"tool failed">>]]
               /\ tl_results' =
                    Append(tl_results,
                           [tool |-> name, error |-> <<"tool failed">>])
  /\ tl_index' = tl_index + 1
  /\ tl_pc' = "loop"
  /\ UNCHANGED << tools, tool_registry, tl_history, tl_plan, tl_response,
                  tl_first, tl_registered, tl_calls >>

\* process(): _generate_response, whose model call can raise, the assistant
\* turn and the return.
ToolsRespond(ok) ==
  /\ UNCHANGED outsideTools
  /\ tl_pc = "loop"
  /\ tl_index > Len(tl_plan)
  /\ IF ok
       THEN /\ tl_history' =
                 AddToHistory(tl_history, Turn("assistant", <<"answer">>))
            /\ tl_response' =
                 [kind |-> "returned", content |-> <<"answer">>,
                  tool_results |-> tl_results]
       ELSE /\ tl_response' = ToolsRaised
            /\ UNCHANGED tl_history
  /\ tl_pc' = "idle"
  /\ UNCHANGED << tools, tool_registry, execution_history, tl_plan, tl_index,
                  tl_results, tl_first, tl_registered, tl_calls >>

ToolsNext ==
  \/ \E t \in ToolObjects : RegisterTool(t)
  \/ \E n \in ToolNames \cup {UnknownTool} : UnregisterTool(n)
  \/ \E q \in Queries : ToolsProcessBegin(q)
  \/ \E o \in PlanOutcomes : ToolsPlan(o)
  \/ ToolStart
  \/ \E ok \in BOOLEAN : ToolFinish(ok)
  \/ \E ok \in BOOLEAN : ToolsRespond(ok)

SpecTools == Init /\ [][ToolsNext]_vars

\* ------------------------------------------------------------------ claims

\* Whether the text msg holds the text part as a contiguous piece.
Mentions(msg, part) ==
  \E i \in 1..(Len(msg) + 1) : \E j \in (i - 1)..Len(msg) :
    SubSeq(msg, i, j) = part

CallsOf(who) == {i \in 1..Len(callLog) : callLog[i].who = who}

RunOver == pc = "idle" /\ result.status # "none"

\* C1: in one run the Generator is called at most twice and the Executor at
\* most twice, the calls alternate Generator, Executor, Generator, Executor,
\* and the second Generator call comes only after the first Executor call
\* failed.
C1_AtMostTwoCallsEach ==
  /\ Cardinality(CallsOf("gen")) <= 2
  /\ Cardinality(CallsOf("exec")) <= 2
  /\ \A i \in 1..Len(callLog) :
       callLog[i].who = IF i % 2 = 1 THEN "gen" ELSE "exec"
  /\ Len(callLog) >= 3 => callLog[2].out.status = "error"

C1_Witness ==
  /\ Len(callLog) = 4
  /\ callLog[2].out.status = "error"
  /\ callLog[4].out.status = "error"
  /\ pc = "idle"

\* C2: a run that ended in failure has left the conversation history as it
\* was when the run started.
C2_FailedRunKeepsHistory ==
  (RunOver /\ result.status = "error") => conversation_history = histBefore

\* C3: when the first execution failed and the execution of the regenerated
\* statement succeeded, the run returns success, its sql_query is the
\* regenerated statement, its data is what the second execution returned, and
\* it has no error field; the /chat response says the same.
C3_RepairedRunSucceeds ==
  (Len(callLog) = 4 /\ callLog[4].out.status = "success") =>
    /\ pc = "idle"
    /\ callLog[4].arg = callLog[3].out.sql_query
    /\ result.status = "success"
    /\ result.sql_query = callLog[3].out.sql_query
    /\ result.data = callLog[4].out.results
    /\ result.row_count = callLog[4].out.row_count
    /\ "error" \notin DOMAIN result
    /\ response.code = 200
    /\ response.sql_query = callLog[3].out.sql_query
    /\ response.data = callLog[4].out.results
    /\ "error" \notin DOMAIN response

C3_Witness ==
  /\ Len(callLog) = 4
  /\ callLog[2].out.status = "error"
  /\ callLog[4].out.status = "success"
  /\ callLog[3].out.sql_query # callLog[1].out.sql_query
  /\ result.data # <<>>

\* C4: in every state the history holds no user turn without its SQL turn:
\* each user turn is directly followed by an assistant turn.
C4_TurnsArePaired ==
  \A i \in 1..Len(conversation_history) :
    conversation_history[i].role = "user" =>
      /\ i < Len(conversation_history)
      /\ conversation_history[i + 1].role = "assistant"

\* C5: when a request succeeded, the last turn of its session is the
\* assistant turn holding the statement returned as sql_query, the one whose
\* execution produced the returned rows.
C5_HistoryRecordsAcceptedSql ==
  /\ (RunOver /\ result.status = "success") =>
       /\ conversation_history # <<>>
       /\ conversation_history[Len(conversation_history)] =
            Turn("assistant", result.sql_query)
  /\ (fc_pc = "idle" /\ fc_response.code = 200) =>
       LET h == conversations[fc_response.session_id] IN
         /\ h # <<>>
         /\ h[Len(h)] = Turn("assistant", fc_response.sql_query)
         /\ fc_execLog[Len(fc_execLog)] = [sql |-> fc_response.sql_query, ok |-> TRUE]

\* C6: the history never holds more turns than the retention window: 10 in
\* the orchestrator, 3 in flight_chat.
C6_HistoryWithinWindow ==
  /\ Len(conversation_history) <= HistoryLimit
  /\ \A s \in DOMAIN conversations : Len(conversations[s]) <= FlightHistoryLimit

\* C7: when the regenerated statement fails too, the run ends there in
\* failure, and its error message holds both the error of the first
\* execution and the error of the second.
C7_RetryFailureCombinesErrors ==
  (Len(callLog) >= 4 /\ callLog[4].out.status = "error") =>
    /\ pc = "idle"
    /\ Len(callLog) = 4
    /\ result.status = "error"
    /\ Mentions(result.error, callLog[4].out.error)
    /\ Mentions(result.error, callLog[2].out.error)

\* C8: when the first Generator call fails, the run ends in failure with
\* the Generator's reason, with no second Generator call and no Executor
\* call.
C8_GenerationFailureEndsRun ==
  (Len(callLog) >= 1 /\ callLog[1].out.status = "error") =>
    /\ pc = "idle"
    /\ Len(callLog) = 1
    /\ dbQueries = 0
    /\ result.status = "error"
    /\ result.error = callLog[1].out.error
    /\ response.code = 500
    /\ response.error = callLog[1].out.error

C8_Witness ==
  /\ Len(callLog) = 1
  /\ callLog[1].out.status = "error"
  /\ result.status = "error"

\* C9: when the first execution fails and the repair call of the Generator
\* fails, the run ends in failure with the reason of the regeneration
\* failure, not the execution error, and the Executor is not called again.
C9_RegenerationFailureEndsRun ==
  (Len(callLog) >= 3 /\ callLog[3].out.status = "error") =>
    /\ pc = "idle"
    /\ Len(callLog) = 3
    /\ Cardinality(CallsOf("exec")) = 1
    /\ callLog[2].out.status = "error"
    /\ result.status = "error"
    /\ result.error = callLog[3].out.error
    /\ result.error # callLog[2].out.error
    /\ response.error = callLog[3].out.error

C9_Witness ==
  /\ Len(callLog) = 3
  /\ callLog[3].out.status = "error"
  /\ result.status = "error"
  /\ dbQueries = 1

ReturnedRows == ex_result.results

ReportedTotal ==
  IF ex_variant = "agent" THEN ex_result.row_count ELSE ex_result.total_rows

Min(a, b) == IF a <= b THEN a ELSE b

ExecutorSucceeded ==
  ex_pc = "idle" /\ ex_result.status \in {"success", "success_with_fallback"}

\* C11: a successful Executor call whose datastore result has n rows, under
\* row cap c, returns exactly the first min(n, c) rows in the datastore's
\* order and reports n as the row count; so the count is at least the
\* number of rows returned, and that number is at most c.
C11_RowCapKeepsFirstRows ==
  ExecutorSucceeded =>
    /\ ReturnedRows = SubSeq(ex_df, 1, Min(Len(ex_df), ex_cap))
    /\ ReportedTotal = Len(ex_df)
    /\ ReportedTotal >= Len(ReturnedRows)
    /\ Len(ReturnedRows) <= ex_cap

C11_Witness ==
  /\ ExecutorSucceeded
  /\ ex_variant = "agent"
  /\ Len(ex_df) = RowCap + 2
  /\ Len(ReturnedRows) = RowCap
  /\ ReturnedRows[RowCap] = RowCap
  /\ ReportedTotal = RowCap + 2

\* The Generator call that is followed has returned; CleanedSql is the SQL
\* text of a call that returned success.
CleanupReturned == cl_pc = "returned"

CleanupSucceeded == CleanupReturned /\ cl_result.status = "success"

CleanedSql == cl_result.sql_query

NoFenceNoBanned(s) ==
  /\ ~Mentions(s, Fence)
  /\ ~Mentions(s, ExtractCall)
  /\ ~Mentions(s, RoundCall)

\* Every ";" of s is its last piece.
OnlyFinalSemicolon(s) == \A i \in 1..(Len(s) - 1) : s[i] # ";"

\* C12: the SQL text the Generator returns on success is a single
\* statement: a text with a ";" before its last character is cut after its
\* first ";", so the returned text has no ";" anywhere but at its end.
C12_SingleStatement == CleanupSucceeded => OnlyFinalSemicolon(CleanedSql)

\* C13: the SQL text the Generator returns on success holds no fence (three
\* backticks in a row), no "EXTRACT(" and no "ROUND("; where the output had
\* one of these calls, the returned text has "date_part(" or "CAST(".
C13_NoFenceNoBannedCall ==
  CleanupSucceeded =>
    /\ NoFenceNoBanned(CleanedSql)
    /\ (~Mentions(cl_text, Fence) /\ ~Contains(cl_text, ";")) =>
         /\ Mentions(cl_text, ExtractCall) =>
              Mentions(CleanedSql, <<"date_part", "(">>)
         /\ Mentions(cl_text, RoundCall) => Mentions(CleanedSql, <<"CAST", "(">>)

C13_Witness ==
  /\ CleanupSucceeded
  /\ StartsWith(cl_raw, SqlFence)
  /\ EndsWith(cl_raw, Fence)
  /\ Mentions(cl_raw, RoundCall)
  /\ CleanedSql = <<"SELECT 1", "CAST", "(">>

\* C14, as claimed: the cleanup returns every text that holds no fence and
\* no banned call exactly as it was given.
C14_CleanTextUnchanged ==
  (CleanupReturned /\ NoFenceNoBanned(cl_text)) =>
    /\ cl_result.status = "success"
    /\ CleanedSql = cl_text

\* C14, amended: the cleanup returns unchanged every text that holds no
\* fence, no banned call and no ";" before its last character, and that
\* neither begins nor ends with whitespace (as the text the Generator hands
\* to the cleanup never does).
C14_SingleCleanStatementUnchanged ==
  (/\ CleanupReturned
   /\ NoFenceNoBanned(cl_text)
   /\ OnlyFinalSemicolon(cl_text)
   /\ cl_text = <<>> \/ (cl_text[1] \notin Whitespace
                         /\ cl_text[Len(cl_text)] \notin Whitespace)) =>
    /\ cl_result.status = "success"
    /\ CleanedSql = cl_text

C14_Witness ==
  /\ CleanupSucceeded
  /\ cl_text = <<"SELECT 1", "\n", "(", ";">>
  /\ CleanedSql = cl_text

\* The statement between the fence lines of the output, when the output is
\* an opening fence line with "sql", a statement, and a closing fence line.
FencedStatement == SubSeq(cl_raw, Len(SqlFence) + 2, Len(cl_raw) - Len(Fence) - 1)

\* The output is such a fenced statement, and the statement ends with its
\* only ";" and holds no fence and no banned call.
OutputIsFencedStatement ==
  /\ Len(cl_raw) >= Len(SqlFence) + Len(Fence) + 3
  /\ cl_raw = Fenced(FencedStatement)
  /\ EndsWith(FencedStatement, <<";">>)
  /\ OnlyFinalSemicolon(FencedStatement)
  /\ NoFenceNoBanned(FencedStatement)

\* C15, as claimed: the cleanup of a fenced statement is exactly the
\* statement.
C15_FencedStatementRecovered ==
  (CleanupReturned /\ OutputIsFencedStatement) =>
    /\ cl_result.status = "success"
    /\ CleanedSql = FencedStatement

\* C15, amended: the cleanup of a fenced statement is the statement without
\* its leading whitespace; it is exactly the statement when the statement
\* does not begin with whitespace.
C15_FencedStatementRecoveredTrimmed ==
  (CleanupReturned /\ OutputIsFencedStatement) =>
    /\ cl_result.status = "success"
    /\ CleanedSql = LStrip(FencedStatement)
    /\ FencedStatement[1] \notin Whitespace => CleanedSql = FencedStatement

C15_Witness ==
  /\ CleanupSucceeded
  /\ OutputIsFencedStatement
  /\ FencedStatement = <<"SELECT 1", "\n", ";">>
  /\ CleanedSql = FencedStatement

\* C16: sessions are independent.  A request finds the history of its token
\* as the last request with that token left it (empty, for the first):
\* requests with other tokens have not changed it; and the history handed
\* to the model for a request holds only turns of requests made with that
\* request's own token.
C16_SessionsIndependent ==
  /\ ag_last.op \in {"chat", "clear"} => ag_before = ag_expected
  /\ ag_last.op = "chat" =>
       \A i \in 1..Len(ag_planOwners) : ag_planOwners[i] = ag_last.token

\* What a Generator or Executor call returned is one of two cases: success
\* with its payload, or error with a reason.
TwoCaseOutcome(call) ==
  \/ /\ call.out.status = "success"
     /\ IF call.who = "gen" THEN "sql_query" \in DOMAIN call.out
                            ELSE "results" \in DOMAIN call.out
  \/ /\ call.out.status = "error"
     /\ "error" \in DOMAIN call.out

\* The run returned a result, and the handler answered with it.
StructuredResult ==
  /\ result.status \in {"success", "error"}
  /\ result.status = "error" => "error" \in DOMAIN result
  /\ result.status = "success" => "sql_query" \in DOMAIN result
  /\ response.code = IF result.status = "success" THEN 200 ELSE 500

\* C17: whatever the collaborators do (the model call raises, the datastore
\* raises, the conversion of the rows raises), every Generator and Executor
\* call returns success or an error with a reason, and every run that has
\* started ends by returning a result with a status.
C17_NoFailureEscapes ==
  /\ [](\A i \in 1..Len(callLog) : TwoCaseOutcome(callLog[i]))
  /\ [](RunOver => StructuredResult)
  /\ (pc # "idle") ~> (pc = "idle" /\ RunOver /\ StructuredResult)

C17_Witness ==
  /\ RunOver
  /\ Len(callLog) = 1
  /\ callLog[1].out.status = "success"
  /\ result = OrchestrationErrorResult(<<"'is_valid'">>)
  /\ response.code = 500

\* C18: an Executor call that has returned has released every connection
\* and every engine it opened.
C18_ConnectionsReleased == ex_pc = "idle" => (ex_open = 0 /\ ex_engines = 0)

\* C19: one run makes at most two calls to the LLM service, counting all of
\* them, and sends at most two queries to the datastore.
C19_AtMostTwoLlmCallsAndTwoQueries == llmCalls <= 2 /\ dbQueries <= 2

\* C19, amended: one run makes at most four calls to the LLM service (the
\* intent classifier, the Generator, the validator, the Generator once more
\* for the repair) and sends at most two queries to the datastore.
C19_AtMostFourLlmCallsAndTwoQueries == llmCalls <= 4 /\ dbQueries <= 2

C19_Witness == RunOver /\ llmCalls = 4 /\ dbQueries = 2

\* C20: once a clear request for a session has returned success, the next
\* request of that session finds an empty history, whether or not the
\* session was registered as active, and the history of every other
\* session is as it was.
C20_ClearDiscardsOnlyThatSession ==
  (ag_last.op = "clear" /\ ag_response.code = 200) =>
    /\ HistoryFor(ag_last.token) = <<>>
    /\ \A b \in SessionTokens \cup {GeneratedToken} :
         b # ag_last.token => HistoryFor(b) = ag_before

\* C21: the first Generator call of a run is made with no prior error; a
\* later Generator call is the repair call, made right after the failed
\* execution of the first statement, and the prior error it receives is the
\* reason that Executor call returned, unmodified.
C21_RepairReceivesExecutorReason ==
  \A i \in 1..Len(callLog) :
    callLog[i].who = "gen" =>
      IF i = 1
        THEN ~callLog[i].hasFeedback
        ELSE /\ i = 3
             /\ callLog[i].hasFeedback
             /\ callLog[1].out.status = "success"
             /\ callLog[2].who = "exec"
             /\ callLog[2].arg = callLog[1].out.sql_query
             /\ callLog[2].out.status = "error"
             /\ callLog[i].arg = callLog[2].out.error

C21_Witness ==
  /\ Len(callLog) >= 3
  /\ callLog[3].who = "gen"
  /\ callLog[3].arg = <<"column foo does not exist">>
  /\ callLog[2].out.error = <<"column foo does not exist">>

\* The Executor calls of this run that went to the datastore.
QueriedCalls ==
  {i \in 1..Len(callLog) :
     callLog[i].who = "exec" /\ callLog[i].arg # EmptyText}

\* C22: a model call that completes with no text is a success of the
\* Generator with the empty statement; the Executor answers the empty
\* statement with an error and sends nothing to the datastore; and the run
\* goes on to its one repair call, with that error as feedback.
C22_EmptySqlRejectedAndRepaired ==
  /\ GeneratorProcess([ok |-> TRUE, text |-> EmptyText])
       = [sql_query |-> EmptyText, status |-> "success"]
  /\ dbQueries = Cardinality(QueriedCalls)
  /\ \A i \in 1..Len(callLog) :
       (callLog[i].who = "exec" /\ callLog[i].arg = EmptyText) =>
         /\ callLog[i].out.status = "error"
         /\ "error" \in DOMAIN callLog[i].out
         /\ i = 2 =>
              \/ pc = "regenerate" /\ Len(callLog) = 2
                   /\ error_message = callLog[2].out.error
              \/ /\ Len(callLog) >= 3
                 /\ callLog[3].who = "gen"
                 /\ callLog[3].hasFeedback
                 /\ callLog[3].arg = callLog[2].out.error

C22_Witness ==
  /\ Len(callLog) = 3
  /\ callLog[1].out = [sql_query |-> EmptyText, status |-> "success"]
  /\ callLog[2].who = "exec"
  /\ callLog[2].arg = EmptyText
  /\ callLog[2].out.status = "error"
  /\ callLog[3].hasFeedback
  /\ dbQueries = 0

\* This step is a call of the Executor.
ExecutorCalledNow ==
  /\ Len(callLog') = Len(callLog) + 1
  /\ callLog'[Len(callLog')].who = "exec"

\* C24: once the statement is generated and the validator has been asked,
\* an intent of SQL_GENERATION_ONLY ends the run with a success that carries
\* the generated statement and no data, the statement appended to the
\* history as an assistant turn and the history cut to its last 10 turns,
\* and no step of such a run calls the Executor; any other intent (the
\* classifier raised, or its answer does not name SQL_GENERATION_ONLY) takes
\* the run on to the execution of the statement.
C24_IntentDecidesExecution ==
  [][ /\ ExecutorCalledNow => intent # "SQL_GENERATION_ONLY"
      /\ pc = "validate" =>
           IF intent = "SQL_GENERATION_ONLY"
             THEN /\ pc' = "idle"
                  /\ callLog' = callLog
                  /\ result'.status = "success"
                  /\ result'.sql_query = sql_query
                  /\ "data" \notin DOMAIN result'
                  /\ conversation_history' =
                       LastN(Append(conversation_history,
                                    Turn("assistant", sql_query)),
                             HistoryLimit)
             ELSE /\ pc' = "execute"
                  /\ sql_query' = sql_query ]_vars

\* The text of a statement before its first 'GROUP BY'.
TextBeforeGroupBy(sql) ==
  IF GroupByAt(sql) = 0 THEN sql ELSE SubSeq(sql, 1, GroupByAt(sql) - 1)

\* C25: one request to flight_chat executes at most three statements: the
\* generated one, then the text before 'GROUP BY' plus ' LIMIT 10;', then
\* 'SELECT * FROM flights LIMIT 5;', each only after the one before it
\* failed; a successful response names the statement that succeeded; and
\* when all three failed the response is an error with code 500 that carries
\* the session id.
C25_ThreeStatementsInOrder ==
  LET n == Len(fc_execLog) IN
    /\ n <= 3
    /\ \A i \in 1..(n - 1) : ~fc_execLog[i].ok
    /\ n >= 1 => fc_execLog[1].sql = fc_generated
    /\ n >= 2 =>
         fc_execLog[2].sql = TextBeforeGroupBy(fc_generated) \o <<" LIMIT 10;">>
    /\ n >= 3 => fc_execLog[3].sql = <<"SELECT * FROM flights LIMIT 5;">>
    /\ (fc_pc = "idle" /\ fc_response.code = 200) =>
         /\ n >= 1
         /\ fc_execLog[n].ok
         /\ fc_response.sql_query = fc_execLog[n].sql
    /\ (n = 3 /\ ~fc_execLog[3].ok) =>
         /\ fc_pc = "idle"
         /\ fc_response.code = 500
         /\ "error" \in DOMAIN fc_response
         /\ "session_id" \in DOMAIN fc_response
         /\ fc_response.session_id \in FlightSessions

C25_Witness ==
  /\ Len(fc_execLog) = 3
  /\ GroupByAt(fc_generated) > 0
  /\ ~fc_execLog[3].ok
  /\ fc_response.code = 500

\* C28: the cleanup is total: whatever text the completed model call
\* returned, a text that opens with a fence and has no line break and a text
\* of fence markers only included, the Generator returns success with the
\* cleaned text.
C28_CleanupIsTotal ==
  CleanupReturned =>
    /\ cl_result.status = "success"
    /\ "sql_query" \in DOMAIN cl_result

\* C23: the orchestrator of a token is created once and never replaced:
\* whatever the interleaving of the requests, every request that was
\* processed with a token was processed by the orchestrator that the token
\* has now, and that orchestrator's history holds the request's turn.
C23_SessionCreatedOnce ==
  \A r \in ss_served :
    /\ r.token \in DOMAIN orchestrators
    /\ orchestrators[r.token] = r.orchestrator
    /\ \E i \in 1..Len(ss_history[orchestrators[r.token]]) :
         ss_history[orchestrators[r.token]][i] = Turn("user", r.request)

\* The events the session's key holds now.
StoredEvents == IF progress_events = 0 THEN << >> ELSE pe_lists[progress_events]

\* No callback and no poll is running.
ProgressQuiet ==
  /\ pe_cb_pc = "idle"
  /\ \A p \in Pollers : pe_poll_pc[p] \in {"ready", "done"}

\* The polls that returned event e.
PollsReturning(e) ==
  {p \in Pollers : pe_poll_pc[p] = "done" /\ e \in Elements(pe_returned[p])}

\* C26: no progress event is lost or delivered twice: once the callbacks
\* and polls that ran have all finished, every reported event that the cap
\* did not evict was returned by exactly one poll or is still stored for the
\* next one, no event was returned by two polls, and every poll returned its
\* events in the order in which they were reported.
C26_EventsDeliveredOnce ==
  ProgressQuiet =>
    /\ \A e \in 1..pe_reported :
         /\ Cardinality(PollsReturning(e)) <= 1
         /\ e \notin pe_evicted =>
              (PollsReturning(e) = {}) = (e \in Elements(StoredEvents))
    /\ \A p \in Pollers : \A i, j \in 1..Len(pe_returned[p]) :
         i < j => pe_returned[p][i] < pe_returned[p][j]

\* C27: when no callback is running, the session's list holds at most 50
\* events, and when more than 50 events were added since the last poll
\* cleared the list it holds the 50 most recent ones in the order in which
\* they were reported.
C27_StoredEventsCapped ==
  pe_cb_pc = "idle" =>
    /\ Len(StoredEvents) <= ProgressCap
    /\ pe_sinceClear > ProgressCap =>
         StoredEvents =
           [i \in 1..ProgressCap |-> pe_reported - ProgressCap + i]

C27_Witness ==
  /\ pe_cb_pc = "idle"
  /\ pe_sinceClear = ProgressCap + 2
  /\ Len(StoredEvents) = ProgressCap
  /\ StoredEvents[1] = 3
  /\ pe_evicted = {1, 2}

\* The process() call has returned a response.
ToolsProcessReturned == tl_pc = "idle" /\ tl_response.kind = "returned"

\* The records that the last process() call added.
AddedRecords ==
  SubSeq(execution_history, tl_first + 1, Len(execution_history))

\* The planned names that were registered when the call began, in plan order.
ExecutedTools ==
  LET Registered(n) == n \in tl_registered
  IN SelectSeq(tl_plan, Registered)

\* C29: when process returns, the records it added and its results are, in
\* plan order, those of the planned tools that are registered, one each: a
\* failed tool does not keep a later one from running, a name that is not
\* registered leaves no record and no result, and no record is left started.
C29_PlannedToolsAllRun ==
  ToolsProcessReturned =>
    /\ Len(AddedRecords) = Len(ExecutedTools)
    /\ Len(tl_results) = Len(ExecutedTools)
    /\ \A i \in 1..Len(AddedRecords) :
         /\ AddedRecords[i].tool = ExecutedTools[i]
         /\ AddedRecords[i].status \in {"completed", "failed"}
         /\ tl_results[i].tool = ExecutedTools[i]
         /\ ("error" \in DOMAIN tl_results[i])
              = (AddedRecords[i].status = "failed")
         /\ ("result" \in DOMAIN tl_results[i])
              = (AddedRecords[i].status = "completed")

C29_Witness ==
  /\ ToolsProcessReturned
  /\ tl_plan = <<"generate_sql", UnknownTool, "execute_sql">>
  /\ Len(AddedRecords) = 2
  /\ AddedRecords[1].status = "failed"
  /\ AddedRecords[2].status = "completed"
  /\ tl_response.tool_results = tl_results

\* C30: after any calls of register_tool and unregister_tool, the names in
\* tool_registry are the names of the tools in the list, and every entry of
\* the registry is a tool of the list.
C30_RegistryAgreesWithTools ==
  /\ DOMAIN tool_registry = {tools[i].name : i \in 1..Len(tools)}
  /\ \A n \in DOMAIN tool_registry :
       \E i \in 1..Len(tools) : tools[i] = tool_registry[n]

====
